---- MODULE Spec2Model ----
(***************************************************************************)
(* Model of the rename pipeline of src/ai_file_renamer.py:                 *)
(* validate_rename_plan, preview_renames, execute_renames and the part of  *)
(* main() that chains them, over a small directory.                        *)
(*                                                                         *)
(* A file name is a sequence of tokens (<<"A">>, <<".", "/", "A">>); a     *)
(* token stands for one character or one run of characters.  The content   *)
(* of a file is identified by the name the file had when the run started.  *)
(***************************************************************************)
EXTENDS Integers, Sequences, FiniteSets, TLC

VARIABLES
    disk,            \* the directory: existing base name -> content (Dir for a subdirectory)
    disk0,           \* the directory as it was when the run started
    plan_shape,      \* whether plan has a "renames" key holding a list
    candidate,       \* plan["renames"] as returned by the oracle
    pc,              \* position in main() / execute_renames
    err,             \* which ValueError validate_rename_plan raised ("none" if none)
    renames,         \* cleaned_plan returned by validate_rename_plan
    needs_temp,      \* execute_renames: needs_temp
    temp_renames,    \* execute_renames: temp_renames
    final_renames,   \* execute_renames: final_renames
    idx,             \* index of the next item of the loop being run
    success_count,   \* execute_renames: success_count
    error_count,     \* execute_renames: error_count
    extensions,      \* main: extensions_to_filter
    files,           \* main: the names of files_info, the listing of the directory
    request,         \* the payload build_user_prompt made for the oracle
    content,         \* kind of the text the oracle answers with (response...message.content)
    api,             \* the environment of the oracle call: the API key and what each call meets
    oracle,          \* get_rename_plan_from_llm: calls made, delays slept, how it ended
    instruction,     \* what call_llm_for_rename_plan reads in the user's instruction
    ctime,           \* creation_time of the entries of the directory
    fixed,           \* what _fix_date_ordered_numbering did to the plan
    choice,          \* preview_renames: the last answer read at the confirmation prompt
    oplog,           \* the rename attempts issued so far, as the logger records them
    external,        \* number of files removed by another process so far
    agent_pc,        \* AIAgent.run: position in the agent loop ("off": the agent is not run)
    requests,        \* AIAgent.run: number of requests the user has made
    llm,             \* what each call of the LLM client meets during send_prompt
    sent,            \* LLMIntegration.send_prompt: attempts made, delays slept, how it ended
    action,          \* the action parsed from the LLM response
    confirmed,       \* UserInterface.request_confirmation returned True for the action
    result,          \* the result of the last execute_action call
    performed        \* the operations the executor has carried out, in order

vars == <<disk, disk0, extensions, files, request, content, api, oracle, instruction, ctime, fixed, choice, plan_shape, candidate, pc, err, renames, needs_temp, temp_renames,
          final_renames, idx, success_count, error_count, oplog, external,
          agent_pc, requests, llm, sent, action, confirmed, result, performed>>

\* the state of the renamer (ai_file_renamer.py) and of the agent (main.py)
renamer_vars == <<disk, disk0, extensions, files, request, content, api, oracle, instruction, ctime, fixed, choice, plan_shape, candidate,
                  pc, err, renames, needs_temp, temp_renames, final_renames, idx, success_count, error_count, oplog, external>>
agent_vars == <<agent_pc, requests, llm, sent, action, confirmed, result, performed>>

(***************************************************************************)
(* Bounds of the model.                                                    *)
(***************************************************************************)
MaxLen == 3          \* longest candidate plan
MaxExternal == 1     \* removals by another process during one run

A == <<"A">>
B == <<"B">>
C == <<"C">>
X == <<"X">>
DotSlashA == <<".", "/", "A">>      \* "./A": another spelling of A

Names == {A, B, C, X, DotSlashA}
Hex == {"0a", "1b"}                 \* values of uuid4().hex[:8]
InitialFiles == {{A, B, C}, {A, B}}

Entries == [old : Names, new : Names]
Candidates == UNION {[1..n -> Entries] : n \in 0..MaxLen}

(***************************************************************************)
(* JSON values.  A string is a sequence of tokens; the values that are not  *)
(* strings are sequences that start with a tag.                            *)
(***************************************************************************)
None == <<"#None">>
Int0 == <<"#int", "0">>
Int5 == <<"#int", "5">>
ListX == <<"#list", "x">>
EmptyStr == <<>>
NotAnObject == [notdict |-> Int5]        \* an item that is not a dict

IsStr(v) == v = <<>> \/ v[1] \notin {"#None", "#int", "#list"}
IsList(v) == v # <<>> /\ v[1] = "#list"
\* bool(v): None, "", 0 and [] are false
Truthy(v) == v \notin {None, EmptyStr, Int0, <<"#list">>}

\* isinstance(item, dict)
IsDict(item) == "notdict" \notin DOMAIN item
\* item.get(key)
Get(item, key) == IF key \in DOMAIN item THEN item[key] ELSE None

NoName == None

(***************************************************************************)
(* The filesystem boundary.                                                *)
(***************************************************************************)
\* directory / name: pathlib drops "." components and the separators around them
Resolve(name) == SelectSeq(name, LAMBDA t : t \notin {".", "/"})

Dir == <<"#dir">>

Exists(d, name) == Resolve(name) \in DOMAIN d

\* variant: a directory counts as a file
IsFile_AcceptsDirectories(d, name) == Resolve(name) \in DOMAIN d

IsFile(d, name) == Resolve(name) \in DOMAIN d /\ d[Resolve(name)] # Dir

Without(d, n) == [m \in (DOMAIN d) \ {n} |-> d[m]]

Moved(d, s, t) == [m \in ((DOMAIN d) \ {s}) \cup {t} |-> IF m = t THEN d[s] ELSE d[m]]

\* src.rename(dst): the set of outcomes [ok, disk].  A missing source raises; an
\* occupied target is replaced on POSIX and raises on Windows; a file is never
\* renamed onto a directory.
RenameOutcomes(d, src, dst) ==
    LET s == Resolve(src)
        t == Resolve(dst)
    IN  IF s \notin DOMAIN d THEN {[ok |-> FALSE, disk |-> d]}
        ELSE IF s = t THEN {[ok |-> TRUE, disk |-> d]}
        ELSE IF t \in DOMAIN d /\ d[t] = Dir THEN {[ok |-> FALSE, disk |-> d]}
        ELSE IF t \in DOMAIN d
             THEN {[ok |-> TRUE, disk |-> Moved(d, s, t)], [ok |-> FALSE, disk |-> d]}
             ELSE {[ok |-> TRUE, disk |-> Moved(d, s, t)]}

(***************************************************************************)
(* list_files_in_directory                                                 *)
(***************************************************************************)
\* the tokens of file names, in the order of their first characters' code
\* points (the order in which Python compares the strings)
TokenOrder ==
    <<"-", ".", ".TXT", ".jpg", ".temp_", ".txt", "/", "0", "0a", "1", "1b", "2", "3", "4", "5",
      "6", "7", "8", "9", "A", "B", "C", "D", "X", "_", "a", "b", "c", "d", "f", "sub">>
TokenRank == [t \in {TokenOrder[i] : i \in 1..Len(TokenOrder)} |->
                 CHOOSE i \in 1..Len(TokenOrder) : TokenOrder[i] = t]

\* a < b for two names, as str compares them
NameLess(a, b) ==
    LET n == IF Len(a) < Len(b) THEN Len(a) ELSE Len(b)
        diff == {i \in 1..n : a[i] # b[i]}
    IN  IF diff = {} THEN Len(a) < Len(b)
        ELSE LET i == CHOOSE i \in diff : \A j \in diff : i <= j
             IN  TokenRank[a[i]] < TokenRank[b[i]]

\* list.sort(key=name) on the entries that iterdir() yields (a set of different
\* names): names that agree before position pos are ordered by their token at
\* pos, a name that ends there first
RECURSIVE SortFrom(_, _), SortBuckets(_, _, _, _)
SortFrom(S, pos) ==
    IF S = {} THEN <<>>
    ELSE LET ended == {n \in S : Len(n) < pos}
         IN  (IF ended = {} THEN <<>> ELSE <<CHOOSE n \in ended : TRUE>>)
                 \o SortBuckets(S \ ended, pos, 1, Len(TokenOrder))
SortBuckets(S, pos, lo, hi) ==
    IF S = {} THEN <<>>
    ELSE IF lo = hi THEN SortFrom({n \in S : n[pos] = TokenOrder[lo]}, pos + 1)
    ELSE LET mid == (lo + hi) \div 2
         IN  SortBuckets({n \in S : TokenRank[n[pos]] <= mid}, pos, lo, mid)
                 \o SortBuckets({n \in S : TokenRank[n[pos]] > mid}, pos, mid + 1, hi)

SortedByName(S) == SortFrom(S, 1)

\* Path.suffix: the last token when it is an extension and not the whole name
SuffixTokens == {".txt", ".TXT", ".jpg"}
Suffix(name) ==
    IF Len(name) >= 2 /\ name[Len(name)] \in SuffixTokens THEN name[Len(name)] ELSE ""
\* str.lower() on a suffix
Lower(suffix) == IF suffix = ".TXT" THEN ".txt" ELSE suffix

\* extensions=None, or the extensions to keep
NoFilter == <<>>
\* line 73: ext if ext.startswith('.') else '.' + ext
WithDot(ext) == IF ext = "txt" THEN ".txt" ELSE ext
NormalizedExts(exts) == {WithDot(exts[i]) : i \in 1..Len(exts)}

\* variant: directories are listed too
list_files_in_directory_WithDirs(d, exts) ==
    SortedByName({n \in DOMAIN d : exts = <<>> \/ Lower(Suffix(n)) \in NormalizedExts(exts)})

\* lines 69-89; a record of the listing is identified by its name
list_files_in_directory(d, exts) ==
    LET file_objects == {n \in DOMAIN d : d[n] # Dir}
        kept == IF exts # <<>>
                THEN {f \in file_objects : Lower(Suffix(f)) \in NormalizedExts(exts)}
                ELSE file_objects
    IN  SortedByName(kept)

(***************************************************************************)
(* llm_interface.build_user_prompt                                         *)
(***************************************************************************)
MAX_FILES_FOR_LLM == 500

NoRequest == [files |-> <<>>, none |-> TRUE]

\* variant: the list is cut already when it has exactly the maximum length
build_user_prompt_AtMax(fs) ==
    IF Len(fs) >= MAX_FILES_FOR_LLM
    THEN [files |-> SubSeq(fs, 1, MAX_FILES_FOR_LLM),
          warning |-> [shown |-> MAX_FILES_FOR_LLM, total |-> Len(fs)]]
    ELSE [files |-> fs]

\* lines 82-101: the payload, with the "warning" key only when the list was cut
build_user_prompt(fs) ==
    LET total_files == Len(fs)
        files_truncated == total_files > MAX_FILES_FOR_LLM
        files_data == IF files_truncated THEN SubSeq(fs, 1, MAX_FILES_FOR_LLM) ELSE fs
    IN  IF files_truncated
        THEN [files |-> files_data,
              warning |-> [shown |-> MAX_FILES_FOR_LLM, total |-> total_files]]
        ELSE [files |-> files_data]

(***************************************************************************)
(* validate_rename_plan                                                    *)
(***************************************************************************)
illegal_chars == {"/", "\\", ":", "*", "?", "\"", "<", ">", "|", "NUL"}

\* variant: the NUL character is left out of the list
HasIllegalChar_NoNul(new) == \E i \in 1..Len(new) : new[i] \in illegal_chars \ {"NUL"}

HasIllegalChar(new) == \E i \in 1..Len(new) : new[i] \in illegal_chars

\* line 268: other_item maps new back to old
SwapMatch(item, old, new) == Get(item, "old") = new /\ Get(item, "new") = old

\* is_swap: some item of the whole list maps new back to old
IsSwap(rs, old, new) == \E j \in 1..Len(rs) : IsDict(rs[j]) /\ SwapMatch(rs[j], old, new)

\* the is_swap loop calls .get on an item that is not a dict before it finds a match
SwapScanRaises(rs, old, new) ==
    \E j \in 1..Len(rs) :
        /\ ~IsDict(rs[j])
        /\ \A k \in 1..(j - 1) : IsDict(rs[k]) /\ ~SwapMatch(rs[k], old, new)

\* the condition that raises "Target filename already exists"
TargetBlocked(d, rs, old_names, old, new) ==
    Exists(d, new) /\ new \notin old_names /\ ~IsSwap(rs, old, new)

\* variant: the duplicate checks of lines 250-254 are left out
CheckItem_NoDuplicateChecks(d, rs, old_names, new_names, old, new) ==
    IF ~Truthy(old) \/ ~Truthy(new) THEN "malformed_entry"
    ELSE IF ~IsStr(old) THEN "type_error"
    ELSE IF ~IsFile(d, old) THEN "not_found"
    ELSE IF ~IsStr(new) THEN "type_error"
    ELSE IF HasIllegalChar(new) THEN "illegal"
    ELSE IF SwapScanRaises(rs, old, new) THEN "type_error"
    ELSE IF TargetBlocked(d, rs, old_names, old, new) THEN "target_exists"
    ELSE "none"

\* the checks made on one item, in the order the code makes them
\* ("type_error" is a TypeError or AttributeError, which is no ValueError)
CheckItem(d, rs, old_names, new_names, old, new) ==
    IF ~Truthy(old) \/ ~Truthy(new) THEN "malformed_entry"
    ELSE IF ~IsStr(old) THEN "type_error"                 \* directory / old
    ELSE IF ~IsFile(d, old) THEN "not_found"
    ELSE IF old \in old_names THEN "dup_old"
    ELSE IF IsList(new) THEN "type_error"                 \* new in new_names: unhashable
    ELSE IF new \in new_names THEN "collision"
    ELSE IF ~IsStr(new) THEN "type_error"                 \* char in new
    ELSE IF HasIllegalChar(new) THEN "illegal"
    ELSE IF SwapScanRaises(rs, old, new) THEN "type_error"
    ELSE IF TargetBlocked(d, rs, old_names, old, new) THEN "target_exists"
    ELSE "none"

\* variant: the cleaned plan is built in reverse order
RECURSIVE ValidateFrom_Prepend(_, _, _, _, _, _)
ValidateFrom_Prepend(d, rs, i, old_names, new_names, cleaned_plan) ==
    IF i > Len(rs) THEN [err |-> "none", plan |-> cleaned_plan]
    ELSE IF ~IsDict(rs[i]) THEN [err |-> "malformed_entry", plan |-> <<>>]
    ELSE LET old == Get(rs[i], "old")
             new == Get(rs[i], "new")
             e == CheckItem(d, rs, old_names, new_names, old, new)
         IN  IF e # "none" THEN [err |-> e, plan |-> <<>>]
             ELSE ValidateFrom_Prepend(d, rs, i + 1, old_names \cup {old}, new_names \cup {new},
                                       <<[old |-> old, new |-> new]>> \o cleaned_plan)

\* variant: the item itself is appended to the cleaned plan
RECURSIVE ValidateFrom_KeepItem(_, _, _, _, _, _)
ValidateFrom_KeepItem(d, rs, i, old_names, new_names, cleaned_plan) ==
    IF i > Len(rs) THEN [err |-> "none", plan |-> cleaned_plan]
    ELSE IF ~IsDict(rs[i]) THEN [err |-> "malformed_entry", plan |-> <<>>]
    ELSE LET old == Get(rs[i], "old")
             new == Get(rs[i], "new")
             e == CheckItem(d, rs, old_names, new_names, old, new)
         IN  IF e # "none" THEN [err |-> e, plan |-> <<>>]
             ELSE ValidateFrom_KeepItem(d, rs, i + 1, old_names \cup {old}, new_names \cup {new},
                                        Append(cleaned_plan, rs[i]))

RECURSIVE ValidateFrom(_, _, _, _, _, _)
ValidateFrom(d, rs, i, old_names, new_names, cleaned_plan) ==
    IF i > Len(rs) THEN [err |-> "none", plan |-> cleaned_plan]
    ELSE IF ~IsDict(rs[i]) THEN [err |-> "malformed_entry", plan |-> <<>>]
    ELSE LET old == Get(rs[i], "old")
             new == Get(rs[i], "new")
             e == CheckItem(d, rs, old_names, new_names, old, new)
         IN  IF e # "none" THEN [err |-> e, plan |-> <<>>]
             ELSE ValidateFrom(d, rs, i + 1, old_names \cup {old}, new_names \cup {new},
                               Append(cleaned_plan, [old |-> old, new |-> new]))

validate_rename_plan(d, rs) == ValidateFrom(d, rs, 1, {}, {}, <<>>)

\* lines 222-223: "renames" not in plan or not isinstance(plan["renames"], list)
\* plan_shape is "no_renames_key" or the type of plan["renames"]
PlanShapes == {"no_renames_key", "list", "str", "NoneType", "dict"}

\* variant: only the presence of the key is tested
ShapeError_KeyOnly(shape) == IF shape = "no_renames_key" THEN "malformed_plan" ELSE "none"

ShapeError(shape) ==
    IF shape = "no_renames_key" \/ shape # "list" THEN "malformed_plan" ELSE "none"

(***************************************************************************)
(* llm_interface.get_rename_plan_from_llm: handling of the oracle's answer  *)
(***************************************************************************)
\* kinds of message.content: a JSON object (described by plan_shape and
\* candidate), text that is no JSON, other JSON values, or no content at all
ContentKinds ==
    {"object", "junk", "number", "null", "bool", "string", "string_naming_renames",
     "array", "array_naming_renames", "None"}

EmptyPlan == [raises |-> FALSE, shape |-> "list", renames |-> <<>>]
Raised == [raises |-> TRUE, shape |-> "list", renames |-> <<>>]

\* json.loads(content): None is no str (TypeError); junk raises JSONDecodeError
JsonLoads(kind) == IF kind = "None" THEN "TypeError" ELSE IF kind = "junk" THEN "JSONDecodeError" ELSE "ok"

\* "renames" in data: key lookup in a dict, substring of a str, element of a
\* list, TypeError on a number, null or boolean
RenamesIn(kind, shape) ==
    IF kind \in {"number", "null", "bool"} THEN "TypeError"
    ELSE IF kind = "object" THEN (IF shape # "no_renames_key" THEN "yes" ELSE "no")
    ELSE IF kind \in {"string_naming_renames", "array_naming_renames"} THEN "yes"
    ELSE "no"

\* lines 142-154
get_rename_plan_from_llm(kind, shape, rs) ==
    IF JsonLoads(kind) = "TypeError" THEN Raised
    ELSE IF JsonLoads(kind) = "JSONDecodeError" THEN EmptyPlan
    ELSE IF RenamesIn(kind, shape) = "TypeError" THEN Raised
    ELSE IF RenamesIn(kind, shape) = "no" THEN EmptyPlan
    ELSE IF kind # "object" THEN Raised           \* data["renames"] on a str or a list
    ELSE IF shape # "list" THEN EmptyPlan
    ELSE [raises |-> FALSE, shape |-> shape, renames |-> rs]

(***************************************************************************)
(* llm_interface.get_rename_plan_from_llm: the retry loop (lines 121-175)  *)
(***************************************************************************)
max_retries == 3
base_delay == 1

\* e.status_code is None
NoStatus == 0
StatusCodes == {NoStatus, 400, 404, 500, 503}

\* what a call of client.chat.completions.create meets
Response == [kind |-> "response", status_code |-> 200]
RateLimit == [kind |-> "RateLimitError", status_code |-> 429]
ApiErrors == [kind : {"APIError"}, status_code : StatusCodes]
CallResults == {Response, RateLimit} \cup ApiErrors

RECURSIVE Pow2(_)
Pow2(n) == IF n = 0 THEN 1 ELSE 2 * Pow2(n - 1)

\* variant: every API error is retried while attempts remain
ShouldRetry_AnyApiError(e, attempt) == attempt < max_retries - 1

\* the conditions of the two except clauses (lines 157 and 166)
ShouldRetry(e, attempt) ==
    IF e.kind = "RateLimitError" THEN attempt < max_retries - 1
    ELSE attempt < max_retries - 1 /\ e.status_code # NoStatus /\ e.status_code >= 500

NotCalled == [calls |-> 0, delays |-> <<>>, outcome |-> "not_called"]

\* the loop "for attempt in range(max_retries)" from the given attempt on;
\* results[attempt + 1] is what the call of this attempt meets
RECURSIVE Attempts(_, _, _, _)
Attempts(results, attempt, delays, answer) ==
    IF attempt >= max_retries
    THEN [calls |-> attempt, delays |-> delays, outcome |-> "ValueError"]
    ELSE LET e == results[attempt + 1]
         IN  IF e.kind = "response"
             THEN [calls |-> attempt + 1, delays |-> delays,
                   outcome |-> IF answer.raises THEN "TypeError" ELSE "returned"]
             ELSE IF ShouldRetry(e, attempt)
             THEN Attempts(results, attempt + 1, Append(delays, base_delay * Pow2(attempt)), answer)
             ELSE [calls |-> attempt + 1, delays |-> delays, outcome |-> "ValueError"]

\* lines 121-175: without an API key nothing is called
CallWithRetries(env, answer) ==
    IF ~env.key THEN [calls |-> 0, delays |-> <<>>, outcome |-> "ValueError"]
    ELSE Attempts(env.results, 0, <<>>, answer)

\* the API answers the first call
Answers == [key |-> TRUE, results |-> [i \in 1..max_retries |-> Response]]
\* the API refuses every call
Refuses == [key |-> TRUE, results |-> [i \in 1..max_retries |-> [kind |-> "APIError", status_code |-> 400]]]

(***************************************************************************)
(* call_llm_for_rename_plan and _fix_date_ordered_numbering                *)
(***************************************************************************)
MaxTime == 2         \* creation times are 1..MaxTime

\* what call_llm_for_rename_plan reads in the instruction: whether it holds a
\* date keyword, whether it holds "reverse", and its pattern with "#" (<<>> if none)
NoDates == [by_date |-> FALSE, reverse |-> FALSE, pattern |-> <<>>]

\* sorted(files, key=creation_time): a stable sort
RECURSIVE ByTimeFrom(_, _, _)
ByTimeFrom(fs, t, v) ==
    IF v > MaxTime THEN <<>>
    ELSE SelectSeq(fs, LAMBDA n : t[n] = v) \o ByTimeFrom(fs, t, v + 1)

Reversed(fs) == [i \in 1..Len(fs) |-> fs[Len(fs) + 1 - i]]

\* lines 110-121: the files handed to the oracle and to the renumbering
FilesForOracle(fs, t, instr) ==
    IF ~instr.by_date THEN fs
    ELSE IF instr.reverse THEN Reversed(ByTimeFrom(fs, t, 1))
    ELSE ByTimeFrom(fs, t, 1)

IsDigit(t) == t \in {"0", "1", "2", "3", "4", "5", "6", "7", "8", "9"}
IsSep(t) == t \in {"_", "-"}
StartsWithDot(t) == t \in {".", ".txt", ".TXT", ".jpg", ".temp_"}
\* \w+ : letters, digits and the underscore
IsWord(t) == ~StartsWithDot(t) /\ t \notin {"-", "#", "/"}

\* the ways r'^(.+?)[_\-]?\d+(\..+)?$' matches a name whose group 1 has k tokens:
\* s tokens of separator and d digits follow, then the end or a dot
Matches(name, k) ==
    {m \in [s : {0, 1}, d : 1..Len(name)] :
        /\ k + m.s + m.d <= Len(name)
        /\ m.s = 1 => IsSep(name[k + 1])
        /\ \A j \in (k + m.s + 1)..(k + m.s + m.d) : IsDigit(name[j])
        /\ \/ k + m.s + m.d = Len(name)
           \/ /\ StartsWithDot(name[k + m.s + m.d + 1])
              /\ (name[k + m.s + m.d + 1] = "." => k + m.s + m.d + 1 < Len(name))}

RECURSIVE Rstrip(_)
\* str.rstrip('_-')
Rstrip(name) ==
    IF name # <<>> /\ IsSep(name[Len(name)]) THEN Rstrip(SubSeq(name, 1, Len(name) - 1)) ELSE name

\* "." + first_file.split(".")[-1] (lines 174-176): <<>> when the name has no dot
ExtOfFile(name) ==
    LET dots == {j \in 1..Len(name) : StartsWithDot(name[j])}
    IN  IF dots = {} THEN <<>>
        ELSE LET last == CHOOSE j \in dots : \A i \in dots : i <= j
             IN  IF name[last] = "." THEN <<".">> \o SubSeq(name, last + 1, Len(name))
                 ELSE SubSeq(name, last, Len(name))

\* line 167 on the new name of the first entry: group 1 is the shortest that
\* allows a match, the separator and the digits are taken greedily
TemplateMatch(name) ==
    LET ks == {k \in 1..Len(name) : Matches(name, k) # {}}
    IN  IF ks = {} THEN [found |-> FALSE]
        ELSE LET k == CHOOSE k \in ks : \A j \in ks : k <= j
                 m == CHOOSE m \in Matches(name, k) :
                          \A o \in Matches(name, k) : o.s < m.s \/ (o.s = m.s /\ o.d <= m.d)
             IN  [found |-> TRUE,
                  prefix |-> Rstrip(SubSeq(name, 1, k)),
                  ext |-> SubSeq(name, k + m.s + m.d + 1, Len(name))]

\* line 179 on the instruction: r'(\w+)[_\-]?#[\._]?(\w+)?' finds the first "#"
\* that a word precedes; the word reaches as far back as word characters go
PatternMatch(p) ==
    LET hs == {h \in 2..Len(p) :
                  /\ p[h] = "#"
                  /\ \/ IsWord(p[h - 1])
                     \/ (h > 2 /\ p[h - 1] = "-" /\ IsWord(p[h - 2]))}
    IN  IF hs = {} THEN [found |-> FALSE]
        ELSE LET h == CHOOSE h \in hs : \A j \in hs : h <= j
                 stop == IF IsWord(p[h - 1]) THEN h - 1 ELSE h - 2
                 start == CHOOSE a \in 1..stop :
                              /\ \A j \in a..stop : IsWord(p[j])
                              /\ (a = 1 \/ ~IsWord(p[a - 1]))
                 after == IF h < Len(p) /\ p[h + 1] \in {".", "_"} THEN h + 2
                          ELSE h + 1
                 word == IF h < Len(p) /\ p[h + 1] \in {".txt", ".TXT", ".jpg"}
                         THEN <<p[h + 1]>>
                         ELSE IF after <= Len(p) /\ IsWord(p[after]) /\ ~IsSep(p[after])
                         THEN <<WithDot(p[after])>>
                         ELSE <<>>
             IN  [found |-> TRUE, prefix |-> SubSeq(p, start, stop), ext |-> word]

\* the decimal digits of i (i is at most 9 in the directories of the model)
NumberToken(i) == <<"0", "1", "2", "3", "4", "5", "6", "7", "8", "9">>[i + 1]

\* lines 158-198: prefix and extension of the new names; none when the plan is
\* returned as it is; raises when the first item is no dict or its new is no str
NamePattern(rs, sorted_files, instr) ==
    IF ~IsDict(rs[1]) THEN [raises |-> TRUE]
    ELSE LET template == IF "new" \in DOMAIN rs[1] THEN rs[1].new ELSE EmptyStr
         IN  IF ~IsStr(template) THEN [raises |-> TRUE]
             ELSE LET t == TemplateMatch(template)
                      pm == PatternMatch(instr.pattern)
                      first_ext == ExtOfFile(sorted_files[1])
                  IN  IF t.found
                      THEN [raises |-> FALSE, none |-> FALSE, prefix |-> t.prefix,
                            ext |-> IF t.ext # <<>> THEN t.ext ELSE first_ext]
                      ELSE IF pm.found
                      THEN [raises |-> FALSE, none |-> FALSE, prefix |-> pm.prefix,
                            ext |-> IF pm.ext # <<>> THEN pm.ext ELSE first_ext]
                      ELSE IF first_ext # <<>>
                      THEN [raises |-> FALSE, none |-> FALSE, prefix |-> <<"file">>,
                            ext |-> first_ext]
                      ELSE [raises |-> FALSE, none |-> TRUE]

\* any(r["old"] == old_name for r in plan["renames"]): "raises" when an item
\* without an old is met before a match
InPlan(rs, old_name) ==
    LET hits == {j \in 1..Len(rs) : IsDict(rs[j]) /\ "old" \in DOMAIN rs[j] /\ rs[j].old = old_name}
        bad == {j \in 1..Len(rs) : ~IsDict(rs[j]) \/ "old" \notin DOMAIN rs[j]}
    IN  IF \E b \in bad : \A h \in hits : b < h THEN "raises"
        ELSE IF hits # {} THEN "yes" ELSE "no"

\* variant: the files are numbered by their position among the files kept
RECURSIVE FixedRenames_Dense(_, _, _, _, _)
FixedRenames_Dense(rs, sorted_files, prefix, ext, i) ==
    IF i > Len(sorted_files) THEN <<>>
    ELSE IF InPlan(rs, sorted_files[i]) = "yes"
    THEN LET kept == {j \in 1..i : InPlan(rs, sorted_files[j]) = "yes"}
         IN  <<[old |-> sorted_files[i],
                new |-> prefix \o <<"_", NumberToken(Cardinality(kept))>> \o ext]>>
                 \o FixedRenames_Dense(rs, sorted_files, prefix, ext, i + 1)
    ELSE FixedRenames_Dense(rs, sorted_files, prefix, ext, i + 1)

\* lines 201-208, from the i-th file of sorted_files on
RECURSIVE FixedRenames(_, _, _, _, _)
FixedRenames(rs, sorted_files, prefix, ext, i) ==
    IF i > Len(sorted_files) THEN <<>>
    ELSE IF InPlan(rs, sorted_files[i]) = "yes"
    THEN <<[old |-> sorted_files[i], new |-> prefix \o <<"_", NumberToken(i)>> \o ext]>>
             \o FixedRenames(rs, sorted_files, prefix, ext, i + 1)
    ELSE FixedRenames(rs, sorted_files, prefix, ext, i + 1)

\* lines 155-210: [raises, rewritten, renames]
fix_date_ordered_numbering(rs, sorted_files, instr) ==
    IF rs = <<>> \/ sorted_files = <<>> THEN [raises |-> FALSE, rewritten |-> FALSE, renames |-> rs]
    ELSE LET np == NamePattern(rs, sorted_files, instr)
         IN  IF np.raises THEN [raises |-> TRUE, rewritten |-> FALSE, renames |-> rs]
             ELSE IF np.none THEN [raises |-> FALSE, rewritten |-> FALSE, renames |-> rs]
             ELSE IF \E i \in 1..Len(sorted_files) : InPlan(rs, sorted_files[i]) = "raises"
             THEN [raises |-> TRUE, rewritten |-> FALSE, renames |-> rs]
             ELSE [raises |-> FALSE, rewritten |-> TRUE,
                   renames |-> FixedRenames(rs, sorted_files, np.prefix, np.ext, 1)]

(***************************************************************************)
(* State machine                                                           *)
(***************************************************************************)
\* the agent of main.py is not run
NoAction == [action_type |-> "<none>"]
NotSent == [attempts |-> 0, delays |-> <<>>, outcome |-> "not_called"]
AgentOff ==
    /\ agent_pc = "off"
    /\ requests = 0
    /\ llm = <<>>
    /\ sent = NotSent
    /\ action = NoAction
    /\ confirmed = FALSE
    /\ result = "<none>"
    /\ performed = <<>>

\* nothing has been read at the confirmation prompt yet
NoAnswer == "<none>"

\* execute_renames has not started
NotStarted ==
    /\ files = <<>>
    /\ request = NoRequest
    /\ api \in {Answers, Refuses}
    /\ oracle = NotCalled
    /\ instruction = NoDates
    /\ ctime = [n \in DOMAIN disk |-> 1]
    /\ fixed = "not_called"
    /\ AgentOff
    /\ err = "none"
    /\ renames = <<>>
    /\ needs_temp = FALSE
    /\ temp_renames = <<>>
    /\ final_renames = <<>>
    /\ idx = 1
    /\ success_count = 0
    /\ error_count = 0
    /\ choice = NoAnswer
    /\ oplog = <<>>
    /\ external = 0

Init ==
    /\ \E fs \in InitialFiles : disk = [n \in fs |-> n]
    /\ disk0 = disk
    /\ plan_shape = "list"
    /\ candidate \in Candidates
    /\ content = "object"
    /\ extensions = NoFilter
    /\ pc = "list"
    /\ NotStarted

\* variant: the pipeline goes on to the preview whatever validation said
AfterValidate_GoOn(r) == "preview"

\* main(), lines 471-482: only a ValueError is caught; an empty plan ends the run
AfterValidate(r) ==
    IF r.err = "type_error" THEN "crashed"
    ELSE IF r.err # "none" THEN "rejected"
    ELSE IF r.plan = <<>> THEN "empty"
    ELSE "preview"

\* main(), line 442: the size from which the user is asked whether to continue
LargeDirectory == 500

\* main(), lines 437-456: list the directory; a large listing asks whether to
\* continue, an empty one ends the run
Snapshot ==
    /\ pc = "list"
    /\ files' = list_files_in_directory(disk, extensions)
    /\ \E response \in {"", "n"} :
          pc' = IF Len(files') > LargeDirectory /\ response = "n" THEN "aborted_large"
                ELSE IF files' = <<>> THEN "no_files"
                ELSE "start"
    /\ UNCHANGED <<agent_vars, disk, disk0, api, oracle, instruction, ctime, fixed, extensions, request, content, choice, plan_shape, candidate, err,
                   renames, needs_temp, temp_renames, final_renames, idx, success_count,
                   error_count, oplog, external>>

\* main(), step 1 (lines 459-468): the oracle call fails, or get_rename_plan_from_llm
\* handles the answer; main returns on every exception of the call
CallOracle ==
    /\ pc = "start"
    /\ LET sorted_files == FilesForOracle(files, ctime, instruction)
           r == get_rename_plan_from_llm(content, plan_shape, candidate)
           o == CallWithRetries(api, r)
           fx == IF o.outcome = "returned" /\ instruction.by_date /\ r.renames # <<>>
                 THEN fix_date_ordered_numbering(r.renames, sorted_files, instruction)
                 ELSE [raises |-> FALSE, rewritten |-> FALSE, renames |-> r.renames, skipped |-> TRUE]
       IN  /\ request' = IF api.key THEN build_user_prompt(sorted_files) ELSE request
           /\ oracle' = o
           /\ fixed' = IF "skipped" \in DOMAIN fx THEN "not_called"
                       ELSE IF fx.raises THEN "raised"
                       ELSE IF fx.rewritten THEN "rewritten" ELSE "as_is"
           /\ IF o.outcome = "ValueError" \/ fx.raises
              THEN pc' = "oracle_failed" /\ UNCHANGED <<plan_shape, candidate>>
              ELSE IF o.outcome = "TypeError"
              THEN pc' = "oracle_crashed" /\ UNCHANGED <<plan_shape, candidate>>
              ELSE pc' = "validate" /\ plan_shape' = r.shape /\ candidate' = fx.renames
    /\ UNCHANGED <<agent_vars, disk, disk0, api, instruction, ctime, extensions, files, content, choice, err, renames, needs_temp, temp_renames,
                   final_renames, idx, success_count, error_count, oplog, external>>

\* main(), step 2: validate the plan; an error or an empty plan ends the run
Validate ==
    /\ pc = "validate"
    /\ LET r == IF ShapeError(plan_shape) # "none"
                THEN [err |-> ShapeError(plan_shape), plan |-> <<>>]
                ELSE validate_rename_plan(disk, candidate)
       IN  /\ err' = r.err
           /\ renames' = r.plan
           /\ pc' = AfterValidate(r)
    /\ UNCHANGED <<agent_vars, disk, disk0, api, oracle, instruction, ctime, fixed, extensions, files, request, content, choice, plan_shape, candidate, needs_temp, temp_renames, final_renames,
                   idx, success_count, error_count, oplog, external>>

\* what the user may type at the prompt
RawAnswers == {"y", "Y", "yes", "n", "no", "", "maybe"}

\* input(...).strip().lower() on the answers above
Normalised(raw) == IF raw = "Y" THEN "y" ELSE raw

\* variant: every answer is taken for a yes
AfterAnswer_Proceed(c) == "execute"

\* lines 299-304: yes proceeds, no or an empty line declines, anything else asks again
AfterAnswer(c) ==
    IF c \in {"y", "yes"} THEN "execute"
    ELSE IF c \in {"n", "no", ""} THEN "declined"
    ELSE "preview"

\* preview_renames: the user answers the confirmation prompt
Preview ==
    /\ pc = "preview"
    /\ \E raw \in RawAnswers :
          /\ choice' = Normalised(raw)
          /\ pc' = AfterAnswer(Normalised(raw))
    /\ UNCHANGED <<agent_vars, disk, disk0, api, oracle, instruction, ctime, fixed, extensions, files, request, content, plan_shape, candidate, err, renames, needs_temp,
                   temp_renames, final_renames, idx, success_count, error_count, oplog, external>>

(***************************************************************************)
(* execute_renames                                                         *)
(***************************************************************************)
\* rename_map.get(name); a later item with the same old replaces an earlier one
RECURSIVE RenameMapGet(_, _)
RenameMapGet(rs, name) ==
    IF rs = <<>> THEN NoName
    ELSE IF rs[Len(rs)].old = name THEN rs[Len(rs)].new
    ELSE RenameMapGet(SubSeq(rs, 1, Len(rs) - 1), name)

\* variant: every item is taken for part of a swap
PartOfSwap_Always(rs, item) == TRUE

\* "this is part of a swap": the target of the item is mapped back to its source
PartOfSwap(rs, item) == RenameMapGet(rs, item.new) = item.old

\* variant: swaps are never detected
NeedsTemp_Never(rs) == FALSE

\* for old_name, new_name in rename_map.items(): rename_map.get(new_name) == old_name
NeedsTemp(rs) ==
    \E i \in 1..Len(rs) :
        PartOfSwap(rs, [old |-> rs[i].old, new |-> RenameMapGet(rs, rs[i].old)])

TempName(h, new) == <<".temp_", h, "_">> \o new

IsTempName(name) == Len(name) > 0 /\ name[1] = ".temp_"

TempRenames(rs, hx) ==
    [i \in 1..Len(rs) |->
        IF PartOfSwap(rs, rs[i])
        THEN [old |-> rs[i].old, new |-> TempName(hx[i], rs[i].new)]
        ELSE rs[i]]

\* variant: no commit is planned for the staged entries
FinalRenames_None(rs, hx, i) == <<>>

RECURSIVE FinalRenames(_, _, _)
FinalRenames(rs, hx, i) ==
    IF i > Len(rs) THEN <<>>
    ELSE IF PartOfSwap(rs, rs[i])
         THEN <<[old |-> TempName(hx[i], rs[i].new), new |-> rs[i].new]>>
              \o FinalRenames(rs, hx, i + 1)
         ELSE FinalRenames(rs, hx, i + 1)

LogEntry(item, ok, phase) == [old |-> item.old, new |-> item.new, ok |-> ok, phase |-> phase]

\* lines 317-345: classify the plan and build the two lists
Prepare ==
    /\ pc = "execute"
    /\ needs_temp' = NeedsTemp(renames)
    /\ IF renames = <<>>
       THEN /\ UNCHANGED <<temp_renames, final_renames>>
            /\ pc' = "done"
       ELSE IF NeedsTemp(renames)
       THEN \E hx \in [1..Len(renames) -> Hex] :
               /\ temp_renames' = TempRenames(renames, hx)
               /\ final_renames' = FinalRenames(renames, hx, 1)
               /\ pc' = "phase1"
       ELSE /\ UNCHANGED <<temp_renames, final_renames>>
            /\ pc' = "direct"
    /\ idx' = 1
    /\ UNCHANGED <<agent_vars, disk, disk0, api, oracle, instruction, ctime, fixed, extensions, files, request, content, choice, plan_shape, candidate, err, renames, success_count, error_count,
                   oplog, external>>

\* variant: a failed temp rename is recorded and the loop goes on
AfterTempRename_Continue(ok, i, n, nfinal) ==
    IF i < n THEN [pc |-> "phase1", idx |-> i + 1]
    ELSE IF nfinal > 0 THEN [pc |-> "phase2", idx |-> 1]
    ELSE [pc |-> "done", idx |-> i]

\* where the temp loop goes after item i of n: a failure returns from the function
AfterTempRename(ok, i, n, nfinal) ==
    IF ~ok THEN [pc |-> "aborted", idx |-> i]
    ELSE IF i < n THEN [pc |-> "phase1", idx |-> i + 1]
    ELSE IF nfinal > 0 THEN [pc |-> "phase2", idx |-> 1]
    ELSE [pc |-> "done", idx |-> i]

\* lines 347-359: one iteration of "Execute temp renames first"
Phase1Step ==
    /\ pc = "phase1"
    /\ LET item == temp_renames[idx]
       IN  \E o \in RenameOutcomes(disk, item.old, item.new) :
              LET nxt == AfterTempRename(o.ok, idx, Len(temp_renames), Len(final_renames))
              IN  /\ disk' = o.disk
                  /\ oplog' = Append(oplog, LogEntry(item, o.ok, "phase1"))
                  /\ error_count' = IF o.ok THEN error_count ELSE error_count + 1
                  /\ pc' = nxt.pc
                  /\ idx' = nxt.idx
    /\ UNCHANGED <<agent_vars, disk0, api, oracle, instruction, ctime, fixed, extensions, files, request, content, choice, plan_shape, candidate, err, renames, needs_temp, temp_renames,
                   final_renames, success_count, external>>

\* variant: the exception of a failed rename leaves execute_renames
AfterRename_Raise(ok, i, n, loop) ==
    IF ~ok THEN [pc |-> "crashed", idx |-> i]
    ELSE IF i = n THEN [pc |-> "done", idx |-> i] ELSE [pc |-> loop, idx |-> i + 1]

\* variant: a failed rename is attempted again
AfterRename_Retry(ok, i, n, loop) ==
    IF ~ok THEN [pc |-> loop, idx |-> i]
    ELSE IF i = n THEN [pc |-> "done", idx |-> i] ELSE [pc |-> loop, idx |-> i + 1]

\* variant: the first failure ends the loop
AfterRename_StopOnFailure(ok, i, n, loop) ==
    IF i = n \/ ~ok THEN [pc |-> "done", idx |-> i] ELSE [pc |-> loop, idx |-> i + 1]

\* where a loop that records failures goes after item i of n
AfterRename(ok, i, n, loop) ==
    IF i = n THEN [pc |-> "done", idx |-> i] ELSE [pc |-> loop, idx |-> i + 1]

\* lines 362-375: one iteration of "Execute final renames"
Phase2Step ==
    /\ pc = "phase2"
    /\ LET item == final_renames[idx]
       IN  \E o \in RenameOutcomes(disk, item.old, item.new) :
              LET nxt == AfterRename(o.ok, idx, Len(final_renames), "phase2")
              IN  /\ disk' = o.disk
                  /\ oplog' = Append(oplog, LogEntry(item, o.ok, "phase2"))
                  /\ success_count' = IF o.ok THEN success_count + 1 ELSE success_count
                  /\ error_count' = IF o.ok THEN error_count ELSE error_count + 1
                  /\ pc' = nxt.pc
                  /\ idx' = nxt.idx
    /\ UNCHANGED <<agent_vars, disk0, api, oracle, instruction, ctime, fixed, extensions, files, request, content, choice, plan_shape, candidate, err, renames, needs_temp, temp_renames,
                   final_renames, external>>

\* lines 378-392: one iteration of "No swaps, execute normally"
DirectStep ==
    /\ pc = "direct"
    /\ LET item == renames[idx]
       IN  \E o \in RenameOutcomes(disk, item.old, item.new) :
              LET nxt == AfterRename(o.ok, idx, Len(renames), "direct")
              IN  /\ disk' = o.disk
                  /\ oplog' = Append(oplog, LogEntry(item, o.ok, "direct"))
                  /\ success_count' = IF o.ok THEN success_count + 1 ELSE success_count
                  /\ error_count' = IF o.ok THEN error_count ELSE error_count + 1
                  /\ pc' = nxt.pc
                  /\ idx' = nxt.idx
    /\ UNCHANGED <<agent_vars, disk0, api, oracle, instruction, ctime, fixed, extensions, files, request, content, choice, plan_shape, candidate, err, renames, needs_temp, temp_renames,
                   final_renames, external>>

\* another process removes a file between validation and the end of the run
ExternalRemove ==
    /\ pc \in {"preview", "phase1", "phase2", "direct"}
    /\ external < MaxExternal
    /\ \E n \in DOMAIN disk : disk' = Without(disk, n)
    /\ external' = external + 1
    /\ UNCHANGED <<agent_vars, disk0, api, oracle, instruction, ctime, fixed, extensions, files, request, content, choice, plan_shape, candidate, pc, err, renames, needs_temp, temp_renames,
                   final_renames, idx, success_count, error_count, oplog>>

Next ==
    \/ Snapshot
    \/ CallOracle
    \/ Validate
    \/ Preview
    \/ Prepare
    \/ Phase1Step
    \/ Phase2Step
    \/ DirectStep
    \/ ExternalRemove

Spec == Init /\ [][Next]_vars

(***************************************************************************)
(* Other starting points of the same pipeline: malformed oracle output and *)
(* a subdirectory; new names with each reserved character; a temp-named    *)
(* file left in the directory by an earlier run.                           *)
(***************************************************************************)
MaxItems == 2        \* longest candidate plan of these starting points

D == <<"D">>
Slashed == <<"a", "/", "b">>

SeqsUpTo(S, n) == UNION {[1..k -> S] : k \in 0..n}

\* an entry carrying a key besides old and new
WithReason == [old |-> B, new |-> X, reason |-> <<"r">>]

ShapeItems ==
    [old : {A, B, X, D, EmptyStr, Int0, Int5, ListX},
     new : {A, B, X, D, EmptyStr, Int5, ListX, Slashed}]
        \cup {[new |-> X], [old |-> A], NotAnObject, WithReason}

InitShape ==
    /\ disk = [n \in {A, B, D} |-> IF n = D THEN Dir ELSE n]
    /\ disk0 = disk
    /\ plan_shape \in PlanShapes
    /\ candidate \in (IF plan_shape = "list" THEN SeqsUpTo(ShapeItems, MaxItems) ELSE {<<>>})
    /\ content = "object"
    \* the pipeline from its start, or validate_rename_plan called on its own with
    \* a plan that did not pass through get_rename_plan_from_llm
    /\ extensions = NoFilter
    /\ pc \in (IF plan_shape = "list" THEN {"list"} ELSE {"list", "validate"})
    /\ NotStarted

SpecShape == InitShape /\ [][Next]_vars

WithChar(c) == <<"a", c, "b">>

CharItems == [old : {A, B, X}, new : {A, B, X} \cup {WithChar(c) : c \in illegal_chars}]

InitChars ==
    /\ disk = [n \in {A, B} |-> n]
    /\ disk0 = disk
    /\ plan_shape = "list"
    /\ candidate \in SeqsUpTo(CharItems, MaxItems)
    /\ content = "object"
    /\ extensions = NoFilter
    /\ pc = "list"
    /\ NotStarted

SpecChars == InitChars /\ [][Next]_vars

LeftoverNames == {TempName(h, n) : h \in Hex, n \in {A, B}}

TempItems == [old : {A, B} \cup LeftoverNames, new : {A, B, X}]

InitTemp ==
    /\ \E left \in LeftoverNames : disk = [n \in {A, B, left} |-> n]
    /\ disk0 = disk
    /\ plan_shape = "list"
    /\ candidate \in SeqsUpTo(TempItems, MaxItems)
    /\ content = "object"
    /\ extensions = NoFilter
    /\ pc = "list"
    /\ NotStarted

SpecTemp == InitTemp /\ [][Next]_vars

OracleItems == [old : {A, B}, new : {A, B, X}]

\* the oracle answers with text of any kind
InitOracle ==
    /\ disk = [n \in {A, B} |-> n]
    /\ disk0 = disk
    /\ content \in ContentKinds
    /\ plan_shape \in (IF content = "object" THEN PlanShapes ELSE {"no_renames_key"})
    /\ candidate \in (IF content = "object" /\ plan_shape = "list"
                      THEN SeqsUpTo(OracleItems, MaxItems) ELSE {<<>>})
    /\ extensions = NoFilter
    /\ pc = "list"
    /\ NotStarted

SpecOracle == InitOracle /\ [][Next]_vars

\* every course of the calls: each of the max_retries calls meets a response, a
\* rate limit or an API error of some status; the key may be missing
Environments ==
    [key : {TRUE}, results : [1..max_retries -> CallResults]] \cup {[key |-> FALSE, results |-> Answers.results]}

InitRetry ==
    /\ disk = [n \in {A, B} |-> n]
    /\ disk0 = disk
    /\ content \in {"object", "junk", "number"}
    /\ plan_shape = "list"
    /\ candidate \in {<<>>, <<[old |-> A, new |-> B], [old |-> B, new |-> A]>>, <<[old |-> A, new |-> X]>>}
    /\ extensions = NoFilter
    /\ pc = "list"
    /\ files = <<>>
    /\ request = NoRequest
    /\ api \in Environments
    /\ oracle = NotCalled
    /\ instruction = NoDates
    /\ ctime = [n \in DOMAIN disk |-> 1]
    /\ fixed = "not_called"
    /\ AgentOff
    /\ err = "none"
    /\ renames = <<>>
    /\ needs_temp = FALSE
    /\ temp_renames = <<>>
    /\ final_renames = <<>>
    /\ idx = 1
    /\ success_count = 0
    /\ error_count = 0
    /\ choice = NoAnswer
    /\ oplog = <<>>
    /\ external = 0

SpecRetry == InitRetry /\ [][Next]_vars

MaxOver == 2         \* how far the largest directory exceeds MAX_FILES_FOR_LLM

Digits == <<"0", "1", "2", "3", "4", "5", "6", "7", "8", "9">>
\* the i-th file of a large directory: f000, f001, ...
NumberedName(i) ==
    <<"f", Digits[(i \div 100) + 1], Digits[((i \div 10) % 10) + 1], Digits[(i % 10) + 1]>>

DirectorySizes == {2} \cup ((MAX_FILES_FOR_LLM - 1)..(MAX_FILES_FOR_LLM + MaxOver))

PromptItems == [old : {NumberedName(1), NumberedName(2)}, new : {NumberedName(2), X}]

\* directories around the size at which the request is truncated; no other
\* process touches the large ones during the run
InitPrompt ==
    /\ \E n \in DirectorySizes : disk = [name \in {NumberedName(i) : i \in 1..n} |-> name]
    /\ disk0 = disk
    /\ plan_shape = "list"
    /\ candidate \in SeqsUpTo(PromptItems, MaxItems)
    /\ content = "object"
    /\ extensions = NoFilter
    /\ pc = "list"
    /\ files = <<>>
    /\ request = NoRequest
    /\ api \in {Answers, Refuses}
    /\ oracle = NotCalled
    /\ instruction = NoDates
    /\ ctime = [n \in DOMAIN disk |-> 1]
    /\ fixed = "not_called"
    /\ AgentOff
    /\ err = "none"
    /\ renames = <<>>
    /\ needs_temp = FALSE
    /\ temp_renames = <<>>
    /\ final_renames = <<>>
    /\ idx = 1
    /\ success_count = 0
    /\ error_count = 0
    /\ choice = NoAnswer
    /\ oplog = <<>>
    /\ external = IF Cardinality(DOMAIN disk) > MaxItems THEN MaxExternal ELSE 0

SpecPrompt == InitPrompt /\ [][Next]_vars

\* entries of a directory with extensions in both cases, a name without an
\* extension, a hidden file and a subdirectory
ATxt == <<"a", ".txt">>
BTxtUpper == <<"b", ".TXT">>
CJpg == <<"c", ".jpg">>
NoExt == <<"d">>
Hidden == <<".txt">>
SubDir == <<"sub", ".txt">>
OtherEntries == {CJpg, NoExt, Hidden, SubDir}

Filters == {NoFilter, <<".txt">>, <<"txt">>, <<".jpg", ".txt">>}

SnapshotItems == [old : {ATxt, BTxtUpper}, new : {ATxt, BTxtUpper, X}]

\* directories with entries of every kind, listed with and without a filter
InitSnapshot ==
    /\ \E others \in SUBSET OtherEntries :
           disk = [n \in {ATxt, BTxtUpper} \cup others |-> IF n = SubDir THEN Dir ELSE n]
    /\ disk0 = disk
    /\ plan_shape = "list"
    /\ candidate \in SeqsUpTo(SnapshotItems, MaxItems)
    /\ content = "object"
    /\ extensions \in Filters
    /\ pc = "list"
    /\ NotStarted

SpecSnapshot == InitSnapshot /\ [][Next]_vars

\* new names the oracle may propose: with number and extension, with a number
\* only, with a doubled separator, without a number
Templates == {<<"j", "_", "1", ".jpg">>, <<"j", "1">>, <<"j", "_", "-", "2">>, X}

\* patterns with "#" in the instruction
HashPatterns == {<<>>, <<"img", "_", "#", ".jpg">>, <<"img", "-", "#">>}

Instructions == {NoDates} \cup [by_date : {TRUE}, reverse : BOOLEAN, pattern : HashPatterns]

DateItems ==
    [old : {A, CJpg, X}, new : Templates]
        \cup {[new |-> X], NotAnObject, [old |-> A, new |-> CJpg], [old |-> CJpg, new |-> A]}

\* instructions that ask for an order by date, files with creation times
InitDates ==
    /\ disk = [n \in {A, B, CJpg} |-> n]
    /\ disk0 = disk
    /\ content = "object"
    /\ plan_shape = "list"
    /\ candidate \in SeqsUpTo(DateItems, MaxItems)
    /\ extensions = NoFilter
    /\ pc = "list"
    /\ files = <<>>
    /\ request = NoRequest
    /\ api = Answers
    /\ oracle = NotCalled
    /\ instruction \in Instructions
    /\ ctime \in [DOMAIN disk -> 1..MaxTime]
    /\ fixed = "not_called"
    /\ AgentOff
    /\ err = "none"
    /\ renames = <<>>
    /\ needs_temp = FALSE
    /\ temp_renames = <<>>
    /\ final_renames = <<>>
    /\ idx = 1
    /\ success_count = 0
    /\ error_count = 0
    /\ choice = NoAnswer
    /\ oplog = <<>>
    /\ external = 0

SpecDates == InitDates /\ [][Next]_vars

(***************************************************************************)
(* The agent: safety.py, SafetyChecker                                     *)
(*                                                                         *)
(* A string of the agent is a sequence of one-character strings.           *)
(***************************************************************************)

UpperCase == <<"A", "B", "C", "D", "E", "F", "G", "H", "I", "J", "K", "L", "M",
               "N", "O", "P", "Q", "R", "S", "T", "U", "V", "W", "X", "Y", "Z">>
LowerCase == <<"a", "b", "c", "d", "e", "f", "g", "h", "i", "j", "k", "l", "m",
               "n", "o", "p", "q", "r", "s", "t", "u", "v", "w", "x", "y", "z">>

\* str.lower and str.upper, character by character
lower_char(c) == IF \E i \in DOMAIN UpperCase : UpperCase[i] = c
                 THEN LowerCase[CHOOSE i \in DOMAIN UpperCase : UpperCase[i] = c] ELSE c
upper_char(c) == IF \E i \in DOMAIN LowerCase : LowerCase[i] = c
                 THEN UpperCase[CHOOSE i \in DOMAIN LowerCase : LowerCase[i] = c] ELSE c
lower(s) == [i \in DOMAIN s |-> lower_char(s[i])]
upper(s) == [i \in DOMAIN s |-> upper_char(s[i])]

\* the character classes \s and \w of the re module
IsSpace(c) == c \in {" ", "\t", "\n"}
WordChars == {LowerCase[i] : i \in DOMAIN LowerCase} \cup {UpperCase[i] : i \in DOMAIN UpperCase}
             \cup {"0", "1", "2", "3", "4", "5", "6", "7", "8", "9", "_"}

\* the elements of a pattern that are not literal characters
SpacesPlus == "\\s+"
SpacesStar == "\\s*"
WordPlus == "\\w+"
ClassFS == "[fs]"

\* a run of characters of one class from position k up to position j - 1
RunOf(s, k, j, space) == \A m \in k..(j - 1) : IF space THEN IsSpace(s[m]) ELSE s[m] \in WordChars

\* the pattern, from its element i on, matches s from position k on
RECURSIVE MatchFrom(_, _, _, _)
MatchFrom(pat, i, s, k) ==
    IF i > Len(pat) THEN TRUE
    ELSE IF pat[i] = SpacesPlus
         THEN \E j \in (k + 1)..(Len(s) + 1) : RunOf(s, k, j, TRUE) /\ MatchFrom(pat, i + 1, s, j)
    ELSE IF pat[i] = SpacesStar
         THEN \E j \in k..(Len(s) + 1) : RunOf(s, k, j, TRUE) /\ MatchFrom(pat, i + 1, s, j)
    ELSE IF pat[i] = WordPlus
         THEN \E j \in (k + 1)..(Len(s) + 1) : RunOf(s, k, j, FALSE) /\ MatchFrom(pat, i + 1, s, j)
    ELSE IF pat[i] = ClassFS
         THEN k <= Len(s) /\ s[k] \in {"f", "s"} /\ MatchFrom(pat, i + 1, s, k + 1)
    ELSE k <= Len(s) /\ s[k] = pat[i] /\ MatchFrom(pat, i + 1, s, k + 1)

\* re.search(pattern, s)
search(pat, s) == \E k \in 1..(Len(s) + 1) : MatchFrom(pat, 1, s, k)

DANGEROUS_PATTERNS == <<
    <<"r", "m", SpacesPlus, "-", "r", "f">>,
    <<"d", "e", "l", SpacesPlus, "/", ClassFS>>,
    <<"f", "o", "r", "m", "a", "t", SpacesPlus>>,
    <<"s", "h", "u", "t", "d", "o", "w", "n", SpacesPlus>>,
    <<"r", "e", "b", "o", "o", "t", SpacesPlus>>,
    <<"k", "i", "l", "l", SpacesPlus>>,
    <<"d", "r", "o", "p", SpacesPlus, "d", "a", "t", "a", "b", "a", "s", "e">>,
    <<"t", "r", "u", "n", "c", "a", "t", "e", SpacesPlus, "t", "a", "b", "l", "e">>,
    <<"d", "e", "l", "e", "t", "e", SpacesPlus, "f", "r", "o", "m", SpacesPlus, WordPlus, SpacesPlus,
      "w", "h", "e", "r", "e", SpacesPlus, "1", SpacesStar, "=", SpacesStar, "1">> >>

Delete == <<"d", "e", "l", "e", "t", "e">>
Remove == <<"r", "e", "m", "o", "v", "e">>
Truncate == <<"t", "r", "u", "n", "c", "a", "t", "e">>
Overwrite == <<"o", "v", "e", "r", "w", "r", "i", "t", "e">>
Format == <<"f", "o", "r", "m", "a", "t">>
Drop == <<"d", "r", "o", "p">>
DESTRUCTIVE_FILE_OPS == {Delete, Remove, Truncate, Overwrite, Format}

dangerous_keywords == {<<"r", "m">>, <<"d", "e", "l">>, Format, <<"s", "h", "u", "t", "d", "o", "w", "n">>,
                       <<"r", "e", "b", "o", "o", "t">>, <<"k", "i", "l", "l">>}

\* the value of a key of the action details, or the default of details.get
Detail(details, key, default) == IF key \in DOMAIN details THEN details[key] ELSE default

\* d in s, for strings
Contains(s, d) == \E k \in 1..(Len(s) - Len(d) + 1) : SubSeq(s, k, k + Len(d) - 1) = d

MatchesDangerousPattern(s) == \E p \in DOMAIN DANGEROUS_PATTERNS : search(DANGEROUS_PATTERNS[p], s)

\* SafetyChecker.validate_action: is_valid
validate_action(action_type, action_details) ==
    ~ ("command" \in DOMAIN action_details /\ MatchesDangerousPattern(lower(action_details["command"])))

\* SafetyChecker.requires_confirmation
requires_confirmation(action_type, action_details) ==
    \/ action_type = "file_operation"
       /\ lower(Detail(action_details, "operation", <<>>)) \in DESTRUCTIVE_FILE_OPS
    \/ action_type = "system_command"
       /\ \E keyword \in dangerous_keywords : Contains(lower(Detail(action_details, "command", <<>>)), keyword)
    \/ action_type = "database_operation"
       /\ lower(Detail(action_details, "operation", <<>>)) \in {Delete, Drop, Truncate}
    \/ action_type = "api_call"
       /\ upper(Detail(action_details, "method", <<>>)) \in {upper(Delete), <<"P", "U", "T">>, <<"P", "A", "T", "C", "H">>}

\* str.replace(old, ""): the occurrences of old are removed from left to right
RECURSIVE Remove_all(_, _)
Remove_all(s, old) ==
    IF Len(s) < Len(old) THEN s
    ELSE IF SubSeq(s, 1, Len(old)) = old THEN Remove_all(SubSeq(s, Len(old) + 1, Len(s)), old)
    ELSE <<Head(s)>> \o Remove_all(Tail(s), old)

\* str.strip()
RECURSIVE strip(_)
strip(s) ==
    IF s = <<>> THEN s
    ELSE IF IsSpace(Head(s)) THEN strip(Tail(s))
    ELSE IF IsSpace(s[Len(s)]) THEN strip(SubSeq(s, 1, Len(s) - 1))
    ELSE s

\* the backquote character
Backquote == "<backquote>"

dangerous_chars == << <<";">>, <<"&", "&">>, <<"|", "|">>, <<Backquote>>, <<"$", "(">> >>

\* the loop of sanitize_command over dangerous_chars, from its element i on
RECURSIVE SanitizeFrom(_, _)
SanitizeFrom(sanitized, i) ==
    IF i > Len(dangerous_chars) THEN sanitized
    ELSE SanitizeFrom(Remove_all(sanitized, dangerous_chars[i]), i + 1)

\* SafetyChecker.sanitize_command
sanitize_command(command) == strip(SanitizeFrom(command, 1))

(***************************************************************************)
(* The agent: llm_integration.py, LLMIntegration.send_prompt               *)
(***************************************************************************)

\* the default of send_prompt's parameter max_retries
default_max_retries == 3

\* what one call of the client can meet: a response with text, a response
\* whose content is None (log_llm_response then raises TypeError inside the
\* try), an error whose message names a rate limit, any other error
Attempts_met == {"text", "no_content", "rate_limit", "error"}

\* the loop of send_prompt from the given attempt on
RECURSIVE SendFrom(_, _, _, _)
SendFrom(script, retries, attempt, delays) ==
    IF attempt >= retries
    THEN [attempts |-> attempt, delays |-> delays, outcome |-> "returned_none"]
    ELSE IF script[attempt + 1] = "text"
         THEN [attempts |-> attempt + 1, delays |-> delays, outcome |-> "returned_text"]
    ELSE IF script[attempt + 1] = "rate_limit"
         THEN SendFrom(script, retries, attempt + 1, Append(delays, (attempt + 1) * 2))
    ELSE IF attempt < retries - 1
         THEN SendFrom(script, retries, attempt + 1, Append(delays, 1))
    ELSE [attempts |-> attempt + 1, delays |-> delays, outcome |-> "raised"]

\* LLMIntegration.send_prompt(prompt), the client meeting script[i] at its i-th call
send_prompt(script) == SendFrom(script, default_max_retries, 0, <<>>)

(***************************************************************************)
(* The agent: action_executor.py, ActionExecutor                           *)
(***************************************************************************)

\* json.loads gave something that is not an object
NotADict == [json |-> "list"]

IsActionDict(a) == "action_type" \in DOMAIN a \/ "action_details" \in DOMAIN a

\* action.get("action_type", "unknown") and action.get("action_details", {})
TypeOf(a) == IF "action_type" \in DOMAIN a THEN a.action_type ELSE "unknown"
DetailsOf(a) == IF "action_details" \in DOMAIN a THEN a.action_details ELSE [k \in {} |-> <<>>]

Read == <<"r", "e", "a", "d">>
Write == <<"w", "r", "i", "t", "e">>
Create == <<"c", "r", "e", "a", "t", "e">>
List == <<"l", "i", "s", "t">>
GET == <<"G", "E", "T">>
POST == <<"P", "O", "S", "T">>
PUT == <<"P", "U", "T">>
PATCH == <<"P", "A", "T", "C", "H">>

\* _execute_file_operation: the operation carried out on the path, if any
execute_file_operation(details) ==
    LET operation == lower(Detail(details, "operation", <<>>))
        path == Detail(details, "path", <<>>)
    IN  IF path = <<>> THEN <<>>
        ELSE IF operation \in {Read, Write, Create, Delete, List}
             THEN <<[kind |-> "file", what |-> operation]>>
        ELSE <<>>

\* _execute_system_command: the string handed to subprocess.run(shell=True), if any
execute_system_command(details) ==
    LET command == Detail(details, "command", <<>>)
    IN  IF command = <<>> THEN <<>>
        ELSE <<[kind |-> "shell", what |-> sanitize_command(command)]>>

\* _execute_api_call: the request made, if any
execute_api_call(details) ==
    LET method == upper(Detail(details, "method", GET))
        url == Detail(details, "url", <<>>)
    IN  IF url = <<>> THEN <<>>
        ELSE IF method \in {GET, POST, PUT, upper(Delete)}
             THEN <<[kind |-> "http", what |-> method]>>
        ELSE <<>>

\* the dispatch of execute_action by action type (lines 101-113); database
\* operations are a placeholder and information only shows a message
Dispatch(action_type, action_details) ==
    IF action_type = "file_operation" THEN execute_file_operation(action_details)
    ELSE IF action_type = "system_command" THEN execute_system_command(action_details)
    ELSE IF action_type = "api_call" THEN execute_api_call(action_details)
    ELSE <<>>

\* execute_action without the confirmation gate of lines 96-98
execute_action_NoGate(a, require_confirmation) ==
    IF ~validate_action(TypeOf(a), DetailsOf(a))
    THEN [result |-> "validation_failed", did |-> <<>>]
    ELSE [result |-> "executed", did |-> Dispatch(TypeOf(a), DetailsOf(a))]

\* ActionExecutor.execute_action: its result and the operations it carried out
execute_action(a, require_confirmation) ==
    LET action_type == TypeOf(a)
        action_details == DetailsOf(a)
    IN  IF ~validate_action(action_type, action_details)
        THEN [result |-> "validation_failed", did |-> <<>>]
        ELSE IF requires_confirmation(action_type, action_details) /\ require_confirmation
             THEN [result |-> "CONFIRMATION_REQUIRED", did |-> <<>>]
        ELSE [result |-> "executed", did |-> Dispatch(action_type, action_details)]

(***************************************************************************)
(* The agent: main.py, AIAgent.run                                         *)
(***************************************************************************)

\* the number of requests the user makes before leaving
MaxRequests == 2

\* the record of an operation in the log of what was carried out
Done(op, a, yes) == [kind |-> op.kind, what |-> op.what, action |-> a, confirmed |-> yes, request |-> requests]
Log(did, a, yes) == [i \in DOMAIN did |-> Done(did[i], a, yes)]

\* the renamer is not run
RenamerOff ==
    /\ disk = [n \in {A} |-> n]
    /\ disk0 = disk
    /\ extensions = {}
    /\ files = <<>>
    /\ request = <<>>
    /\ content = "object"
    /\ api = Answers
    /\ oracle = NotCalled
    /\ instruction = NoDates
    /\ ctime = [n \in DOMAIN disk |-> 1]
    /\ fixed = "not_called"
    /\ choice = NoAnswer
    /\ plan_shape = "object"
    /\ candidate = <<>>
    /\ pc = "off"
    /\ err = "none"
    /\ renames = <<>>
    /\ needs_temp = FALSE
    /\ temp_renames = <<>>
    /\ final_renames = <<>>
    /\ idx = 1
    /\ success_count = 0
    /\ error_count = 0
    /\ oplog = <<>>
    /\ external = 0

\* the agent waits for the user's first request; the LLM will answer every
\* request with the given action, its client meeting the given script
AgentStarts(actions, scripts) ==
    /\ RenamerOff
    /\ agent_pc = "input"
    /\ requests = 0
    /\ llm \in scripts
    /\ sent = NotSent
    /\ action \in actions
    /\ confirmed = FALSE
    /\ result = "<none>"
    /\ performed = <<>>

\* run, lines 38-43: get_user_input returns None (exit, quit, q) or a request
GetInput ==
    /\ agent_pc = "input"
    /\ \E user_input \in {"exit", "request"} :
         IF user_input = "exit"
         THEN agent_pc' = "stopped" /\ UNCHANGED requests
         ELSE requests < MaxRequests /\ requests' = requests + 1 /\ agent_pc' = "send"
    /\ sent' = NotSent
    /\ confirmed' = FALSE
    /\ result' = "<none>"
    /\ UNCHANGED <<renamer_vars, llm, action, performed>>

\* run, lines 48-60: send_prompt, then parse_llm_response, which returns None
\* for a response that is None
SendPrompt ==
    /\ agent_pc = "send"
    /\ sent' = send_prompt(llm)
    /\ agent_pc' = IF sent'.outcome = "returned_text" THEN "execute" ELSE "input"
    /\ UNCHANGED <<renamer_vars, requests, llm, action, confirmed, result, performed>>

\* run, lines 63-71 and 81-86: the first execute_action call; an action that
\* is not a dict ends the loop in the outer except clause
FirstExecute ==
    /\ agent_pc = "execute"
    /\ IF ~IsActionDict(action)
       THEN agent_pc' = "crashed" /\ UNCHANGED <<result, performed>>
       ELSE LET r == execute_action(action, TRUE)
            IN  /\ result' = r.result
                /\ performed' = performed \o Log(r.did, action, FALSE)
                /\ agent_pc' = IF r.result = "CONFIRMATION_REQUIRED" THEN "confirm" ELSE "input"
    /\ UNCHANGED <<renamer_vars, requests, llm, sent, action, confirmed>>

\* run, lines 72-79: request_confirmation; a refusal cancels the action
RequestConfirmation ==
    /\ agent_pc = "confirm"
    /\ \E yes \in BOOLEAN :
         /\ confirmed' = yes
         /\ agent_pc' = IF yes THEN "execute_confirmed" ELSE "input"
    /\ UNCHANGED <<renamer_vars, requests, llm, sent, action, result, performed>>

\* run, line 75: the second execute_action call, with require_confirmation=False
SecondExecute ==
    /\ agent_pc = "execute_confirmed"
    /\ LET r == execute_action(action, FALSE)
       IN  /\ result' = r.result
           /\ performed' = performed \o Log(r.did, action, confirmed)
    /\ agent_pc' = "input"
    /\ UNCHANGED <<renamer_vars, requests, llm, sent, action, confirmed>>

AgentNext == GetInput \/ SendPrompt \/ FirstExecute \/ RequestConfirmation \/ SecondExecute

\* the scripts of the client: what each of the calls of one send_prompt meets
Scripts == [1..default_max_retries -> Attempts_met]
AllText == [i \in 1..default_max_retries |-> "text"]

RmRf == <<"r", "m", " ", "-", "r", "f", " ", "x">>
RmRfUpper == upper(RmRf)
RmFile == <<"r", "m", " ", "x">>
Ls == <<"l", "s">>
Kill == <<"k", "i", "l", "l", " ", "1">>
BaseCommands == {RmRf, RmRfUpper, RmFile, Ls, Kill}

\* a command with one of the sequences that sanitize_command removes put in
Inserted(s, k, d) == SubSeq(s, 1, k) \o d \o SubSeq(s, k + 1, Len(s))
Commands == BaseCommands \cup {<<>>}
            \cup {Inserted(s, k, dangerous_chars[d]) : s \in {RmRf, Kill}, k \in 1..3, d \in DOMAIN dangerous_chars}

Path == <<"x">>
Url == <<"u">>

SystemCommands == {[action_type |-> "system_command", action_details |-> [command |-> c]] : c \in Commands}
FileOperations == {[action_type |-> "file_operation", action_details |-> [operation |-> o, path |-> Path]] :
                       o \in {Read, Delete, upper(Delete), Overwrite}}
                  \cup {[action_type |-> "file_operation", action_details |-> [operation |-> Delete]],
                        [action_type |-> "file_operation", action_details |-> [operation |-> Read, path |-> Path, command |-> RmRf]]}
DatabaseOperations == {[action_type |-> "database_operation", action_details |-> [operation |-> o]] : o \in {Drop, Read}}
ApiCalls == {[action_type |-> "api_call", action_details |-> [method |-> m, url |-> Url]] :
                 m \in {GET, lower(PUT), PATCH, upper(Delete)}}
            \cup {[action_type |-> "api_call", action_details |-> [url |-> Url]]}
OtherActions == {[action_type |-> "information", action_details |-> [message |-> <<"m">>]],
                 [action_type |-> "shell", action_details |-> [command |-> Ls]],
                 [action_details |-> [command |-> Ls]],
                 [action_type |-> "system_command"],
                 NotADict}
AgentActions == SystemCommands \cup FileOperations \cup DatabaseOperations \cup ApiCalls \cup OtherActions

InitAgent == AgentStarts(AgentActions, Scripts)
SpecAgent == InitAgent /\ [][AgentNext]_vars

\* the characters of the sequences that sanitize_command removes, a blank and a letter
SanitizeAlphabet == {";", "&", "|", Backquote, "$", "(", " ", "a"}
MaxCommandLen == 4
SanitizeInputs == UNION {[1..n -> SanitizeAlphabet] : n \in 0..MaxCommandLen}

InitSanitize == AgentStarts({[action_type |-> "system_command", action_details |-> [command |-> c]] : c \in SanitizeInputs}
                            \cup {[action_type |-> "system_command", action_details |-> [command |-> Inserted(RmFile, 2, <<";">>)]],
                                  NotADict},
                            {AllText, [i \in 1..default_max_retries |-> "rate_limit"]})
SpecSanitize == InitSanitize /\ [][AgentNext]_vars

(***************************************************************************)
(* Vocabulary of the properties                                            *)
(***************************************************************************)
E(o, n) == [old |-> o, new |-> n]

Swap2 == <<E(A, B), E(B, A)>>
Cycle3 == <<E(A, B), E(B, C), E(C, A)>>

\* validate_rename_plan has returned or raised
ValidationDone == pc \notin {"list", "no_files", "aborted_large", "start", "oracle_failed", "oracle_crashed", "validate"}
Validated == ValidationDone /\ pc \notin {"rejected", "crashed"}
Accepted == Validated /\ err = "none"
Finished == pc \in {"done", "aborted"}
Undisturbed == external = 0

OldsOf(rs) == {rs[i].old : i \in 1..Len(rs)}
NoTempOnDisk == \A n \in DOMAIN disk : ~IsTempName(n)
Holds(new, old) == Exists(disk, new) /\ disk[Resolve(new)] = disk0[Resolve(old)]

\* no new name of the plan is an old name of the plan
ConflictFree(rs) == \A i, j \in 1..Len(rs) : rs[i].new # rs[j].old

\* C1: with A and B on disk the swap A->B, B->A is accepted, and once
\* execute_renames has run on the undisturbed directory B holds A's content,
\* A holds B's content and no temp-named file is left.
C1_SwapApplied ==
    candidate = Swap2 =>
        /\ ValidationDone => (err = "none" /\ renames = Swap2)
        /\ Undisturbed => pc # "aborted"
        /\ (pc = "done" /\ Undisturbed) =>
               /\ Holds(B, A)
               /\ Holds(A, B)
               /\ NoTempOnDisk
               /\ \A n \in DOMAIN disk0 \ {A, B} : Holds(n, n)

C1_Witness == candidate = Swap2 /\ pc = "done" /\ Undisturbed /\ C \in DOMAIN disk0

\* C2: with A, B and C on disk the cycle A->B, B->C, C->A is accepted and, once
\* execute_renames has run, the contents are rotated with no temp-named file left.
C2_ThreeCycleApplied ==
    (candidate = Cycle3 /\ DOMAIN disk0 = {A, B, C}) =>
        /\ ValidationDone => (err = "none" /\ renames = Cycle3)
        /\ (pc = "done" /\ Undisturbed) =>
               (Holds(B, A) /\ Holds(C, B) /\ Holds(A, C) /\ NoTempOnDisk)

\* C3: for every accepted candidate, execute_renames on the undisturbed directory
\* ends with each new name holding the original content of its old name, every
\* file not named in the plan untouched and no content destroyed.
C3_NoDataLoss ==
    (Accepted /\ Finished /\ Undisturbed) =>
        /\ \A i \in 1..Len(renames) : Holds(renames[i].new, renames[i].old)
        /\ \A n \in DOMAIN disk0 :
               (\A i \in 1..Len(renames) : Resolve(renames[i].old) # n) => Holds(n, n)
        /\ \A n \in DOMAIN disk0 : \E m \in DOMAIN disk : disk[m] = disk0[n]

\* C4: in every returned plan the new name of every entry either does not exist
\* on disk or is the old name of another entry of the plan.
C4_TargetSafety ==
    Accepted =>
        \A i \in 1..Len(renames) :
            \/ ~Exists(disk0, renames[i].new)
            \/ \E j \in 1..Len(renames) : j # i /\ renames[j].old = renames[i].new

\* the candidates with the same entries as rs, in any order
Reorderings(rs) ==
    {[i \in 1..Len(rs) |-> rs[f[i]]] :
        f \in {g \in [1..Len(rs) -> 1..Len(rs)] : \A a, b \in 1..Len(rs) : a # b => g[a] # g[b]}}

\* C5: the verdict of validate_rename_plan on a candidate set is the same for
\* every ordering of its entries.
C5_OrderIndependent ==
    ValidationDone =>
        \A rs \in Reorderings(candidate) :
            (validate_rename_plan(disk0, rs).err = "none") <=> (err = "none")

\* an entry whose new name is occupied on disk or is an old name of the plan
Conflicting(rs, i) == Exists(disk0, rs[i].new) \/ rs[i].new \in OldsOf(rs)

\* C6: whenever some entry's new name is occupied on disk or is an old name of
\* the plan, the two-phase strategy runs: every such entry goes old->temp in
\* Phase 1 and temp->new in Phase 2, every other entry directly to its new name.
C6_StagingSelection ==
    (pc \in {"phase1", "phase2", "direct", "done", "aborted"}
       /\ \E i \in 1..Len(renames) : Conflicting(renames, i)) =>
        /\ needs_temp
        /\ \A i \in 1..Len(renames) :
              IF Conflicting(renames, i)
              THEN /\ IsTempName(temp_renames[i].new)
                   /\ \E k \in 1..Len(final_renames) :
                          final_renames[k] = E(temp_renames[i].new, renames[i].new)
              ELSE temp_renames[i] = renames[i]

\* the directory obtained from d by the successful renames among the first k logged
RECURSIVE Replay(_, _)
Replay(d, k) ==
    IF k = 0 THEN d
    ELSE LET before == Replay(d, k - 1)
         IN  IF oplog[k].ok
             THEN Moved(before, Resolve(oplog[k].old), Resolve(oplog[k].new))
             ELSE before

\* C7: in a staged run a failed Phase-1 rename is the last rename ever issued:
\* the run is aborted, no Phase-2 rename and no remaining Phase-1 rename is
\* attempted, and the directory is left exactly as the completed renames made it.
C7_FatalAbort ==
    /\ \A i \in 1..Len(oplog) :
          (oplog[i].phase = "phase1" /\ ~oplog[i].ok) => (i = Len(oplog) /\ pc = "aborted")
    /\ pc = "aborted" =>
          /\ Len(oplog) = idx
          /\ \A i \in 1..Len(oplog) :
                /\ oplog[i].phase = "phase1"
                /\ oplog[i].old = temp_renames[i].old
                /\ oplog[i].new = temp_renames[i].new
                /\ oplog[i].ok <=> i < Len(oplog)
          /\ Undisturbed => disk = Replay(disk0, Len(oplog))

C7_Witness ==
    /\ pc = "aborted"
    /\ Undisturbed
    /\ Len(oplog) >= 2
    /\ Len(oplog) < Len(temp_renames)
    /\ Holds(oplog[1].new, oplog[1].old)

\* the attempts logged so far are the first entries of rs, in order
LogFollows(rs, from) ==
    \A k \in 1..(Len(oplog) - from) :
        k <= Len(rs) /\ oplog[from + k].old = rs[k].old /\ oplog[from + k].new = rs[k].new

\* C8: for a plan in which no new name is an old name, execute_renames issues
\* exactly one rename old->new per entry, in plan order, and no temp-named file
\* ever exists.
C8_FastPath ==
    (Accepted /\ ConflictFree(renames)) =>
        /\ LogFollows(renames, 0)
        /\ pc = "direct" => Len(oplog) = idx - 1
        /\ Finished => (pc = "done" /\ Len(oplog) = Len(renames))
        /\ NoTempOnDisk
        /\ \A i \in 1..Len(oplog) : ~IsTempName(oplog[i].old) /\ ~IsTempName(oplog[i].new)

C8_Witness ==
    /\ Accepted
    /\ ConflictFree(renames)
    /\ pc = "done"
    /\ Len(renames) = 2
    /\ Exists(disk0, B)
    /\ \A i \in 1..2 : oplog[i].ok

\* C9: in a conflict-free plan a rename fails exactly when its source is missing,
\* the failure is counted, and the loop goes on to the next entry: at the end
\* every entry has been attempted.
C9_PartialFailure ==
    [][(pc = "direct" /\ ConflictFree(renames) /\ Len(oplog') = Len(oplog) + 1) =>
          LET e == oplog'[Len(oplog')]
          IN  /\ e.old = renames[idx].old /\ e.new = renames[idx].new
              /\ e.ok <=> IsFile(disk, e.old)
              /\ e.ok => (success_count' = success_count + 1 /\ error_count' = error_count)
              /\ ~e.ok => (error_count' = error_count + 1 /\ success_count' = success_count)
              /\ IF idx < Len(renames)
                 THEN pc' = "direct" /\ idx' = idx + 1
                 ELSE pc' = "done" /\ Len(oplog') = Len(renames)]_vars

C9_Witness ==
    /\ pc = "done"
    /\ ConflictFree(renames)
    /\ Len(oplog) = 2
    /\ ~oplog[1].ok /\ oplog[2].ok
    /\ Holds(renames[2].new, renames[2].old)
    /\ error_count = 1 /\ success_count = 1

FailedIn(phase) == {i \in 1..Len(oplog) : oplog[i].phase = phase /\ ~oplog[i].ok}

\* C10: once every Phase-1 rename has succeeded, every staged entry's temp->new
\* rename is attempted, in order; a failed one is counted and the others still run.
C10_CommitIndependent ==
    pc \in {"phase2", "done"} /\ needs_temp =>
        LET n1 == Len(temp_renames)
        IN  /\ Len(oplog) >= n1
            /\ \A i \in 1..n1 : oplog[i].ok /\ oplog[i].phase = "phase1"
            /\ \A i \in (n1 + 1)..Len(oplog) : oplog[i].phase = "phase2"
            /\ LogFollows(final_renames, n1)
            /\ pc = "phase2" => Len(oplog) = n1 + idx - 1
            /\ pc = "done" => Len(oplog) = n1 + Len(final_renames)
            /\ error_count = Cardinality(FailedIn("phase2"))
            /\ success_count = Len(oplog) - n1 - error_count

C10_Witness ==
    /\ pc = "done"
    /\ needs_temp
    /\ Len(final_renames) = 2
    /\ ~oplog[Len(oplog) - 1].ok
    /\ oplog[Len(oplog)].ok
    /\ oplog[Len(oplog) - 1].phase = "phase2"

(***************************************************************************)
(* Vocabulary of the validation rules                                      *)
(***************************************************************************)
OldAt(i) == Get(candidate[i], "old")
NewAt(i) == Get(candidate[i], "new")

Reserved == {"/", "\\", ":", "*", "?", "\"", "<", ">", "|", "NUL"}
ContainsReserved(name) == \E k \in 1..Len(name) : name[k] \in Reserved

NonEmptyStr(v) == IsStr(v) /\ v # EmptyStr
\* an object whose old and new are non-empty strings
WellFormed(item) ==
    IsDict(item) /\ NonEmptyStr(Get(item, "old")) /\ NonEmptyStr(Get(item, "new"))
AllObjects == \A j \in 1..Len(candidate) : IsDict(candidate[j])

RealFile(name) == Resolve(name) \in DOMAIN disk0 /\ disk0[Resolve(name)] # Dir

\* every entry before entry i is a well-formed rename of an existing file to a
\* legal, free name, with no old and no new repeated among them
CleanBefore(i) ==
    \A j \in 1..(i - 1) :
        /\ WellFormed(candidate[j])
        /\ RealFile(OldAt(j))
        /\ ~ContainsReserved(NewAt(j))
        /\ Resolve(NewAt(j)) \notin DOMAIN disk0
        /\ \A k \in 1..(j - 1) : OldAt(k) # OldAt(j) /\ NewAt(k) # NewAt(j)

\* entry i is the first entry of the candidate to break a rule, and it is reached
Reached(i) == i \in 1..Len(candidate) /\ AllObjects /\ CleanBefore(i)

RepeatsOld(i) == \E k \in 1..(i - 1) : OldAt(k) = OldAt(i)
RepeatsNew(i) == \E k \in 1..(i - 1) : NewAt(k) = NewAt(i)

IsBaseName(name) == \A k \in 1..Len(name) : name[k] \notin {"/", "\\"}

\* C14: old and new of every entry of a validated plan are base names with no
\* path separator, so every rename attempted has its source and its target
\* directly inside the directory.
C14_BaseNames ==
    /\ Accepted =>
          \A i \in 1..Len(renames) :
              IsBaseName(renames[i].old) /\ IsBaseName(renames[i].new)
    /\ \A k \in 1..Len(oplog) : IsBaseName(oplog[k].old) /\ IsBaseName(oplog[k].new)

\* the rule of highest priority that entry i breaks, in the order malformed entry,
\* old not found, duplicate old, collision, illegal character; "other" when it
\* breaks none of these (only the target-exists rule is left)
HighestPriority(i) ==
    IF ~WellFormed(candidate[i]) THEN "malformed_entry"
    ELSE IF ~RealFile(OldAt(i)) THEN "not_found"
    ELSE IF RepeatsOld(i) THEN "dup_old"
    ELSE IF RepeatsNew(i) THEN "collision"
    ELSE IF ContainsReserved(NewAt(i)) THEN "illegal"
    ELSE "other"

TargetOccupied(i) == Resolve(NewAt(i)) \in DOMAIN disk0

\* C15: validation fails on the first violated rule and returns no partial plan;
\* entries are checked in list order, and the first entry that breaks a rule is
\* reported with the rule of highest priority it breaks (malformed entry, old not
\* found, duplicate old, collision, illegal character, target exists).
C15_ErrorPriority ==
    (ValidationDone /\ plan_shape = "list") =>
        /\ err # "none" => renames = <<>>
        /\ \A i \in 1..Len(candidate) :
              (HighestPriority(i) # "other" /\ \A j \in 1..(i - 1) : HighestPriority(j) = "other") =>
                  \/ err = HighestPriority(i)
                  \/ err = "target_exists" /\ \E j \in 1..(i - 1) : TargetOccupied(j)
        /\ (\A i \in 1..Len(candidate) : HighestPriority(i) = "other") =>
              \/ err = "none"
              \/ err = "target_exists" /\ \E j \in 1..Len(candidate) : TargetOccupied(j)

\* C16: on an input without the renames key, or whose renames value is not a
\* list, validation fails with the malformed-plan error and returns no plan.
C16_BadShape ==
    (ValidationDone /\ plan_shape # "list") =>
        /\ err = "malformed_plan"
        /\ pc = "rejected"
        /\ renames = <<>>
        /\ disk = disk0

C16_Witness ==
    /\ plan_shape = "str"
    /\ pc = "rejected"
    /\ err = "malformed_plan"

\* C17: an entry that is not an object with old and new both non-empty strings
\* (a missing key, an empty string, a number, a list, a non-object) makes
\* validation fail with the malformed-entry error, when every entry before it is
\* clean.
C17_MalformedEntry ==
    (ValidationDone /\ plan_shape = "list") =>
        \A i \in 1..Len(candidate) :
            (~WellFormed(candidate[i]) /\ CleanBefore(i)) =>
                (err = "malformed_entry" /\ pc = "rejected")

ValidationFailed == err # "none"

\* C18: the validation step changes no file whether it accepts or rejects, and
\* once validation has failed the run is over: the directory is as it was, no
\* rename has been attempted and execute_renames is never reached.
C18_NoSideEffects ==
    /\ [][pc = "validate" => disk' = disk]_vars
    /\ [](ValidationFailed =>
             /\ pc \in {"rejected", "crashed"}
             /\ disk = disk0
             /\ oplog = <<>>
             /\ renames = <<>>
             /\ temp_renames = <<>> /\ final_renames = <<>>
             /\ success_count = 0 /\ error_count = 0)

C18_Witness ==
    /\ pc = "rejected"
    /\ err = "target_exists"
    /\ Len(candidate) = 2
    /\ disk = disk0

\* C19: when validation accepts a candidate and returns plan P, validating P
\* against the unchanged directory is accepted too and returns P itself, the same
\* entries in the same order.
C19_Idempotent ==
    Accepted => validate_rename_plan(disk0, renames) = [err |-> "none", plan |-> renames]

C19_Witness ==
    /\ Accepted
    /\ Len(renames) = 2
    /\ renames # candidate
    /\ renames[1] # renames[2]

\* the temporary names generated by this run
TempAt(i) == final_renames[i].old

\* C20: every temporary name generated by execute_renames differs from every file
\* existing in the directory, from every other temporary name of the run and from
\* every old and new of the plan.
C20_TempNamesFresh ==
    \A i \in 1..Len(final_renames) :
        /\ Resolve(TempAt(i)) \notin DOMAIN disk0
        /\ \A j \in 1..Len(final_renames) : j # i => TempAt(j) # TempAt(i)
        /\ \A j \in 1..Len(renames) :
              renames[j].old # TempAt(i) /\ renames[j].new # TempAt(i)

\* the part that holds: the temporary names of one run differ from each other
C20_TempsDistinct ==
    \A i, j \in 1..Len(final_renames) : j # i => TempAt(j) # TempAt(i)

(***************************************************************************)
(* Properties of a completed run                                           *)
(***************************************************************************)
\* execute_renames reached its final report (lines 394-395)
Completed == pc = "done"

\* entry i of the plan is staged through a temporary name
Staged(i) == PartOfSwap(renames, renames[i])

\* the commit temp -> new of staged entry i was issued and succeeded
Committed(i) ==
    \E k \in 1..Len(oplog) :
        /\ oplog[k].phase = "phase2"
        /\ oplog[k].ok
        /\ oplog[k].old = temp_renames[i].new
        /\ oplog[k].new = renames[i].new

C22_ReportTotals ==
    Completed => success_count + error_count = Len(renames)

\* the part that holds: in a run without staging every entry is counted once
C22_DirectTotals ==
    (Completed /\ ~needs_temp) => success_count + error_count = Len(renames)

(***************************************************************************)
(* Properties of the pipeline                                              *)
(***************************************************************************)
SaidYes == choice \in {"y", "yes"}
Executing == pc \in {"execute", "phase1", "phase2", "direct", "done", "aborted"}
EndedBeforeExecute == pc \in {"no_files", "aborted_large", "oracle_failed", "oracle_crashed", "rejected", "crashed", "empty", "declined"}
\* this step issues a rename: an attempt is logged or the program changes the disk
IssuesRename == oplog' # oplog \/ (disk' # disk /\ external' = external)

\* C23: no rename is issued unless the plan was validated, is non-empty and the
\* user answered yes at the prompt; when the user declines, the plan is empty,
\* or validation or the oracle call failed, the run ends without a rename and the
\* program leaves the directory as it was.
C23_ConfirmationGate ==
    /\ [][IssuesRename => (pc \in {"phase1", "phase2", "direct"} /\ SaidYes /\ err = "none"
                              /\ renames # <<>>)]_vars
    /\ [](Executing => (SaidYes /\ err = "none" /\ renames # <<>>))
    /\ [](EndedBeforeExecute => (oplog = <<>> /\ (Undisturbed => disk = disk0)))
    /\ [][EndedBeforeExecute => pc' = pc]_vars

C23_Witness ==
    /\ pc = "declined"
    /\ choice = "no"
    /\ renames = Swap2
    /\ disk = disk0

\* the oracle's answer is a JSON object with a renames list
WellShapedAnswer == content = "object" /\ plan_shape = "list"
\* this step is get_rename_plan_from_llm handling an answer the API delivered
HandlesAnswer == pc = "start" /\ pc' # "start" /\ pc' # "oracle_failed"

\* C24: for every answer of the oracle that is not a JSON object with a renames
\* list, get_rename_plan_from_llm returns {renames: []} and raises nothing.
C24_MalformedAnswerIsEmptyPlan ==
    [][(HandlesAnswer /\ ~WellShapedAnswer) =>
          (pc' = "validate" /\ plan_shape' = "list" /\ candidate' = <<>>)]_vars

\* the part that holds: text that is no JSON, and a JSON object without a renames
\* list, become the empty plan
C24_JunkAndObjects ==
    [][(HandlesAnswer /\ ~WellShapedAnswer /\ content \in {"junk", "object"}) =>
          (pc' = "validate" /\ plan_shape' = "list" /\ candidate' = <<>>)]_vars

(***************************************************************************)
(* Properties of the rename loops                                          *)
(***************************************************************************)
FailedAttempts == {k \in 1..Len(oplog) : ~oplog[k].ok}
InLoop == pc \in {"phase1", "phase2", "direct"}
\* this step is a rename attempt that failed
RenameFails == Len(oplog') = Len(oplog) + 1 /\ ~oplog'[Len(oplog')].ok

\* C25: every failure of a rename inside execute_renames is caught and recorded as
\* a failure of that entry (logged and counted); no exception of a rename leaves
\* execute_renames: after a failure the function goes on with its loop, returns
\* (Phase 1) or reports completion.
C25_NoFailureEscapes ==
    /\ [](error_count = Cardinality(FailedAttempts))
    /\ [][RenameFails =>
             /\ error_count' = error_count + 1
             /\ pc' \in {"phase2", "direct", "done", "aborted"}
             /\ disk' = disk]_vars
    /\ [][InLoop => pc' \in {"phase1", "phase2", "direct", "done", "aborted"}]_vars

C25_Witness ==
    /\ pc = "done"
    /\ error_count = 2
    /\ Cardinality(FailedAttempts) = 2
    /\ success_count = 0

\* the attempts made for plan entry i: its direct or stage attempt, and its commit
FirstAttempts(i) ==
    {k \in 1..Len(oplog) : oplog[k].phase \in {"phase1", "direct"} /\ oplog[k].old = renames[i].old}
CommitAttempts(i) ==
    {k \in 1..Len(oplog) : oplog[k].phase = "phase2" /\ oplog[k].new = renames[i].new}

\* C26: in one run each plan entry causes at most one direct rename attempt, or at
\* most one stage attempt followed by at most one commit attempt; no rename is
\* attempted twice, so a failed rename is not attempted again.
C26_NoRetry ==
    /\ \A i \in 1..Len(renames) :
          /\ Cardinality(FirstAttempts(i)) <= 1
          /\ Cardinality(CommitAttempts(i)) <= 1
          /\ \A c \in CommitAttempts(i) :
                \E f \in FirstAttempts(i) : f < c /\ oplog[f].ok /\ oplog[f].new = oplog[c].old
    /\ \A k, l \in 1..Len(oplog) :
          k # l => <<oplog[k].old, oplog[k].new>> # <<oplog[l].old, oplog[l].new>>
    /\ Len(oplog) <= Len(renames) + Len(final_renames)

C26_Witness ==
    /\ pc = "done"
    /\ Len(renames) = 3
    /\ Len(oplog) = 3
    /\ ~oplog[1].ok
    /\ oplog[3].ok

\* the plan indices of the staged entries, in plan order
RECURSIVE StagedIndices(_)
StagedIndices(i) ==
    IF i > Len(renames) THEN <<>>
    ELSE IF Staged(i) THEN <<i>> \o StagedIndices(i + 1)
    ELSE StagedIndices(i + 1)

\* attempt k of a run without staging is the rename of plan entry k
DirectOrder(k) ==
    /\ k <= Len(renames)
    /\ oplog[k].phase = "direct"
    /\ oplog[k].old = renames[k].old
    /\ oplog[k].new = renames[k].new

\* attempt k of Phase 1 moves the old of plan entry k, to a temp name if staged
StageOrder(k) ==
    /\ oplog[k].phase = "phase1"
    /\ oplog[k].old = renames[k].old
    /\ IF Staged(k) THEN IsTempName(oplog[k].new) ELSE oplog[k].new = renames[k].new

\* attempt Len(renames) + m is the commit of the m-th staged entry, issued after
\* every Phase-1 rename succeeded
CommitOrder(k) ==
    LET m == k - Len(renames)
    IN  /\ oplog[k].phase = "phase2"
        /\ \A j \in 1..Len(renames) : oplog[j].ok /\ oplog[j].phase = "phase1"
        /\ m <= Len(StagedIndices(1))
        /\ oplog[k].old = oplog[StagedIndices(1)[m]].new
        /\ oplog[k].new = renames[StagedIndices(1)[m]].new

\* C27: renames are issued one at a time; a run without staging issues them in
\* plan order; a staged run issues all Phase-1 renames in plan order and, only
\* after all of them succeeded, the commits in plan order of the staged entries.
C27_FixedOrder ==
    /\ [][Len(oplog') <= Len(oplog) + 1 /\ SubSeq(oplog', 1, Len(oplog)) = oplog]_vars
    /\ [](\A k \in 1..Len(oplog) :
             IF ~needs_temp THEN DirectOrder(k)
             ELSE IF k <= Len(renames) THEN StageOrder(k)
             ELSE CommitOrder(k))

C27_Witness ==
    /\ pc = "done"
    /\ needs_temp
    /\ Len(renames) = 3
    /\ Len(oplog) = 5
    /\ ~Staged(2)

\* the request of the run has been built
RequestBuilt == request # NoRequest

\* C28: when more than MAX_FILES_FOR_LLM files are listed, the request holds
\* exactly the first MAX_FILES_FOR_LLM of them in the order of the listing and a
\* warning with the shown and the total count; otherwise it holds every file
\* and has no warning field.
C28_RequestTruncation ==
    RequestBuilt =>
        IF Len(files) > MAX_FILES_FOR_LLM
        THEN /\ DOMAIN request = {"files", "warning"}
             /\ Len(request.files) = MAX_FILES_FOR_LLM
             /\ \A i \in 1..MAX_FILES_FOR_LLM : request.files[i] = files[i]
             /\ request.warning.shown = MAX_FILES_FOR_LLM
             /\ request.warning.total = Len(files)
        ELSE /\ DOMAIN request = {"files"}
             /\ request.files = files

C28_Witness ==
    /\ RequestBuilt
    /\ Len(files) = MAX_FILES_FOR_LLM + 1
    /\ Len(request.files) = MAX_FILES_FOR_LLM
    /\ "warning" \in DOMAIN request
    /\ pc = "done"

\* list_files_in_directory returns
TakesSnapshot == pc = "list" /\ pc' # "list"

\* the suffix of the name, in lower case, is one of the extensions of the filter
InFilter(name, exts) == \E i \in 1..Len(exts) : Lower(Suffix(name)) = WithDot(exts[i])

Issued == oplog'[Len(oplog')]

\* C30: while nothing else changes the directory, every rename that
\* execute_renames issues for a validated plan has a source that exists and a
\* target name that is vacant when it is issued; no rename fails and the run
\* reports zero failures.
C30_NoOccupiedTarget ==
    /\ [](Undisturbed => FailedAttempts = {} /\ error_count = 0)
    /\ [][Undisturbed /\ IssuesRename =>
             Exists(disk, Issued.old) /\ ~Exists(disk, Issued.new)]_vars

(***************************************************************************)
(* The shape of the validated plan                                         *)
(***************************************************************************)
\* C31: the plan that validate_rename_plan returns has one entry per entry of
\* the candidate, in the same order; each entry carries the old and the new of
\* its candidate entry unchanged and has no other key.
C31_NeitherDropsNorReorders ==
    Accepted =>
        /\ Len(renames) = Len(candidate)
        /\ \A i \in 1..Len(candidate) :
              /\ DOMAIN renames[i] = {"old", "new"}
              /\ renames[i].old = Get(candidate[i], "old")
              /\ renames[i].new = Get(candidate[i], "new")

C31_Witness ==
    /\ pc = "preview"
    /\ err = "none"
    /\ Len(candidate) = 2
    /\ candidate[1] = WithReason
    /\ candidate[2].old # candidate[1].old
    /\ Len(renames) = 2

(***************************************************************************)
(* The oracle call                                                         *)
(***************************************************************************)
\* get_rename_plan_from_llm has ended
Called == oracle # NotCalled
\* what the k-th call met
Met(k) == api.results[k]
\* a rate limit, or an API error with a status of at least 500
Retryable(e) == e.kind = "RateLimitError" \/ (e.kind = "APIError" /\ e.status_code >= 500)

\* the part of C32 about the retries: at most 3 calls; a further call is made only
\* after a rate-limit error or an API error with a status of at least 500; before
\* the call after attempt number a the function sleeps base_delay * 2^a seconds;
\* an API error with another status ends the function with ValueError at once.
C32_RetryPolicy ==
    Called =>
        /\ oracle.calls <= 3
        /\ \A k \in 1..(oracle.calls - 1) : Retryable(Met(k))
        /\ oracle.calls >= 1 => Len(oracle.delays) = oracle.calls - 1
        /\ \A k \in 1..Len(oracle.delays) : oracle.delays[k] = 1 * 2^(k - 1)
        /\ \A k \in 1..oracle.calls :
              (Met(k).kind = "APIError" /\ ~Retryable(Met(k))) =>
                  (oracle.calls = k /\ oracle.outcome = "ValueError")

\* C32: get_rename_plan_from_llm calls the oracle at most 3 times, retries only
\* after a rate-limit error or an API error with status >= 500 while attempts
\* remain, sleeps base_delay * 2^attempt before the next attempt, raises
\* ValueError at once on an API error with another status, and always ends by
\* returning a plan or by raising ValueError.
C32_OracleRetryBound ==
    /\ C32_RetryPolicy
    /\ Called => oracle.outcome \in {"returned", "ValueError"}

(***************************************************************************)
(* Renumbering in date order                                               *)
(***************************************************************************)
\* this step is call_llm_for_rename_plan with a plan that the renumbering rewrote
Renumbers == pc = "start" /\ fixed' = "rewritten"
\* the olds of the plan the oracle returned
OriginalOlds == {candidate[j].old : j \in {k \in 1..Len(candidate) : IsDict(candidate[k]) /\ "old" \in DOMAIN candidate[k]}}
\* the 1-based position of a name in the sorted list handed to the oracle
PositionIn(fs, name) == CHOOSE i \in 1..Len(fs) : fs[i] = name

\* C37: a plan rewritten by _fix_date_ordered_numbering holds exactly the files of
\* the sorted list that are an old of the original plan, in the order of the
\* sorted list; the file at position i of the sorted list gets prefix_i+ext with
\* one prefix and one ext for all; the new names differ pairwise and the olds
\* are olds of the original plan.
C37_DateOrderRenumbering ==
    [][Renumbers =>
          LET sorted_files == request'.files
              fixed_renames == candidate'
          IN  /\ [k \in 1..Len(fixed_renames) |-> fixed_renames[k].old]
                     = SelectSeq(sorted_files, LAMBDA n : n \in OriginalOlds)
              /\ \A k \in 1..Len(fixed_renames) : DOMAIN fixed_renames[k] = {"old", "new"}
              /\ fixed_renames # <<>> =>
                     \E a \in 0..Len(fixed_renames[1].new) :
                         \A k \in 1..Len(fixed_renames) :
                             fixed_renames[k].new
                                 = SubSeq(fixed_renames[1].new, 1, a)
                                     \o <<"_", NumberToken(PositionIn(sorted_files, fixed_renames[k].old))>>
                                     \o SubSeq(fixed_renames[1].new, a + 3, Len(fixed_renames[1].new))
              /\ \A k, l \in 1..Len(fixed_renames) : k # l => fixed_renames[k].new # fixed_renames[l].new
              /\ \A k \in 1..Len(fixed_renames) : fixed_renames[k].old \in OriginalOlds]_vars

C37_Witness ==
    /\ fixed = "rewritten"
    /\ instruction.reverse
    /\ files = <<A, B, CJpg>>
    /\ request.files = <<CJpg, B, A>>
    /\ Len(candidate) = 2
    /\ candidate[1] = [old |-> CJpg, new |-> <<"j", "_", "1", ".jpg">>]
    /\ candidate[2] = [old |-> A, new |-> <<"j", "_", "3", ".jpg">>]
    /\ pc = "done"

\* send_prompt has been called for the current request and has ended
SendPromptEnded == sent.outcome # "not_called"

\* C33: send_prompt makes at most max_retries attempts and ends in one of
\* two ways only: it returns the response text of a successful attempt, or
\* it raises the error of its last attempt; it never returns without a
\* response text.
C33_SendPromptEnds ==
    SendPromptEnded =>
        /\ sent.attempts \in 1..default_max_retries
        /\ \/ sent.outcome = "returned_text" /\ llm[sent.attempts] = "text"
           \/ sent.outcome = "raised" /\ llm[sent.attempts] \in {"error", "no_content"}

\* the strings handed to the shell so far
HandedToShell == {performed[i].what : i \in {j \in DOMAIN performed : performed[j].kind = "shell"}}

\* C36: the result of sanitize_command, the string handed to the shell,
\* contains none of the sequences ; && || ` $( and sanitize_command applied
\* to it returns it unchanged.
C36_SanitizeRemoves ==
    \A s \in HandedToShell :
        /\ \A d \in DOMAIN dangerous_chars : ~Contains(s, dangerous_chars[d])
        /\ sanitize_command(s) = s

\* the action carries a command that matches one of DANGEROUS_PATTERNS
CommandMatches(a) ==
    /\ IsActionDict(a)
    /\ "command" \in DOMAIN DetailsOf(a)
    /\ MatchesDangerousPattern(lower(DetailsOf(a)["command"]))

\* C35: no dangerous command reaches the shell: every string handed to the
\* shell, the string after sanitize_command, matches none of
\* DANGEROUS_PATTERNS; an action whose command matches such a pattern is
\* rejected by validate_action and never executed, with or without
\* confirmation.
C35_NoDangerousCommandReachesShell ==
    /\ \A s \in HandedToShell : ~MatchesDangerousPattern(s)
    /\ \A i \in DOMAIN performed : ~CommandMatches(performed[i].action)
    /\ (CommandMatches(action) /\ result # "<none>") => result = "validation_failed"

\* requires_confirmation holds for the action
Requires(a) == IsActionDict(a) /\ requires_confirmation(TypeOf(a), DetailsOf(a))
\* validate_action accepts the action
Valid(a) == IsActionDict(a) /\ validate_action(TypeOf(a), DetailsOf(a))

\* the action of the current request has been carried out
PerformedNow == \E i \in DOMAIN performed : performed[i].request = requests
\* every operation carried out for an action that requires confirmation was confirmed
OnlyAfterConfirmation == \A i \in DOMAIN performed : Requires(performed[i].action) => performed[i].confirmed
\* the first execute_action call of a request
FirstCall == agent_pc = "execute" /\ agent_pc' # "execute"
\* the user has declined the action of the current request
Declines == agent_pc = "confirm" /\ ~confirmed'
Declined == agent_pc = "input" /\ result = "CONFIRMATION_REQUIRED"

====
